---- MODULE Spec2Model ----
(***************************************************************************)
(* A model of the micro-blossom decoding core:                             *)
(*   - PrimalNodes, the fixed-capacity node arena of the embedded primal   *)
(*     module (src/cpu/blossom-nostd/src/primal_nodes.rs);                 *)
(*   - DualModuleRTL, the register-transfer-level dual module              *)
(*     (src/cpu/blossom/src/dual_module_rtl.rs);                           *)
(*   - Edge::get_response of the combinational dual module                 *)
(*     (src/cpu/blossom/src/dual_module_comb_edge.rs).                     *)
(* Option<T> of an index type is an integer with NONE for None; an         *)
(* Option<PrimalNode> is a sequence of length 0 (None) or 1 (Some).        *)
(***************************************************************************)
EXTENDS Integers, Sequences, FiniteSets, TLC

VARIABLES
    primal_nodes,   \* the PrimalNodes struct: buffer, first_blossom_child, count_defects, count_blossoms
    primal_fatal,   \* a debug_assert! or an unwrap of the primal module has failed: the program halted
    last,           \* the last call on the arena: its name, arguments, result and callbacks
    episode_ids,    \* the blossom IDs allocate_blossom has returned since the last clear()
    dual_module_rtl, \* the DualModuleRTL struct: vertices, edges, nodes
    dual_fatal,     \* an assert!, unwrap or unreachable! of the dual module has failed
    dual_last,      \* the last call on the dual module: its name, arguments, instructions, response
    expanded,       \* the blossoms remove_blossom has been called on since the last clear()
    grow_log,       \* the lengths grown and not yet shrunk back, and the phase of the caller
    reduce_resp1,   \* the first argument of Response::reduce
    reduce_resp2,   \* the second argument of Response::reduce
    reduced,        \* whether reduce has been applied, and the value it returned
    comb_edge,      \* a combinational Edge and the signals of the driver it reads
    comb_response,  \* the response signal of the edge: not evaluated, or its value
    comb_fatal,     \* the assert! of Edge::get_response has failed
    pre_matching    \* a combinational Edge, its cached signals and the driver state it reads

primal_vars == <<primal_nodes, primal_fatal, last, episode_ids>>

dual_vars == <<dual_module_rtl, dual_fatal, dual_last, expanded, grow_log>>

reduce_vars == <<reduce_resp1, reduce_resp2, reduced>>

comb_vars == <<comb_edge, comb_response, comb_fatal, pre_matching>>

vars == <<primal_nodes, primal_fatal, last, episode_ids,
          dual_module_rtl, dual_fatal, dual_last, expanded, grow_log,
          reduce_resp1, reduce_resp2, reduced,
          comb_edge, comb_response, comb_fatal, pre_matching>>

(***************************************************************************)
(* Bounds of the model.                                                    *)
(***************************************************************************)
\* the const generic N of PrimalNodes<N, DOUBLE_N>: defect slots [0, N), blossom slots [N, 2N)
N == 5
DOUBLE_N == 2 * N

NONE == -1

NodeIds == 0 .. (DOUBLE_N - 1)
DefectIds == 0 .. (N - 1)
BlossomIds == N .. (DOUBLE_N - 1)
GrowStates == {"Grow", "Shrink", "Stay"}
\* the virtual vertices of the decoding graph the primal module is driven on
VirtualVertices == {0, 1}
\* the vertex a defect node sits on, in the syndromes the model loads
DefectVertex(d) == Cardinality(VirtualVertices) + d
\* the virtual vertex a defect reaches when it grows to the boundary
BoundaryOf(d) == d % Cardinality(VirtualVertices)

(***************************************************************************)
(* PrimalNode and TouchingLink.                                            *)
(***************************************************************************)
TouchingLink_new ==
    [touch |-> NONE, through |-> NONE, peer_touch |-> NONE, peer_through |-> NONE]

\* grow_state "None" is Option::None: an inner node
PrimalNode_new ==
    [grow_state |-> "Grow", parent |-> NONE, first_child |-> NONE,
     sibling |-> NONE, link |-> TouchingLink_new]

PrimalNodes_new ==
    [buffer |-> [i \in NodeIds |-> <<>>],
     first_blossom_child |-> [i \in 0 .. (N - 1) |-> NONE],
     count_defects |-> 0,
     count_blossoms |-> 0]

is_outer_blossom(node) == node.grow_state # "None"

in_alternating_tree(node) == node.parent # NONE \/ node.first_child # NONE

is_free(node) == ~in_alternating_tree(node) /\ node.link.touch = NONE

is_matched(node) == ~in_alternating_tree(node) /\ node.link.touch # NONE

remove_from_alternating_tree(node) ==
    [node EXCEPT !.parent = NONE, !.first_child = NONE]

remove_from_matching_asserts(node) == is_outer_blossom(node) /\ is_matched(node)

\* remove_from_matching that forgets the peer and leaves the node's own touch
remove_from_matching_keep_touch(node) ==
    [node EXCEPT !.sibling = NONE, !.link.peer_touch = NONE, !.link.peer_through = NONE]

remove_from_matching(node) ==
    [node EXCEPT !.sibling = NONE, !.link = TouchingLink_new]

\* CompactMatchTarget: Peer(node_index) or VirtualVertex(vertex_index)
get_matched(node) ==
    IF node.sibling # NONE
    THEN [kind |-> "Peer", target |-> node.sibling]
    ELSE [kind |-> "VirtualVertex", target |-> node.link.peer_through]

(***************************************************************************)
(* PrimalNodes: the arena.                                                 *)
(***************************************************************************)
\* clear that resets the defect counter only
clear_defects_only(self) == [self EXCEPT !.count_defects = 0]

clear(self) == [self EXCEPT !.count_defects = 0, !.count_blossoms = 0]

\* prepare_defects_up_to that moves the counter without emptying the slots
prepare_defects_up_to_counter_only(self, defect_index) ==
    IF defect_index >= self.count_defects
    THEN [self EXCEPT !.count_defects = defect_index + 1]
    ELSE self

prepare_defects_up_to(self, defect_index) ==
    IF defect_index >= self.count_defects
    THEN [self EXCEPT
            !.buffer = [i \in NodeIds |->
                          IF i >= self.count_defects /\ i <= defect_index
                          THEN <<>> ELSE self.buffer[i]],
            !.count_defects = defect_index + 1]
    ELSE self

\* the debug assertions of is_blossom
is_blossom_asserts(self, node_index) ==
    /\ node_index < DOUBLE_N
    /\ (node_index >= N => (node_index - N) < self.count_blossoms)

is_blossom(node_index) == ~(node_index < N)

has_node(self, node_index) == self.buffer[node_index] # <<>>

get_node(self, node_index) == self.buffer[node_index][1]

check_node_index_asserts(self, node_index) == is_blossom_asserts(self, node_index)

\* check_node_index without the is_none test: the slot is always written
check_node_index_overwrite(self, node_index) ==
    IF is_blossom(node_index)
    THEN self
    ELSE [prepare_defects_up_to(self, node_index) EXCEPT
            !.buffer[node_index] = <<PrimalNode_new>>]

check_node_index(self, node_index) ==
    IF is_blossom(node_index)
    THEN self
    ELSE LET prepared == prepare_defects_up_to(self, node_index)
         IN  IF prepared.buffer[node_index] = <<>>
             THEN [prepared EXCEPT !.buffer[node_index] = <<PrimalNode_new>>]
             ELSE prepared

get_first_blossom_child(self, blossom_index) ==
    self.first_blossom_child[blossom_index - N]

\* allocate_blossom without its overflow assertion
allocate_blossom_unchecked(self) == TRUE

allocate_blossom_asserts(self) == self.count_blossoms < N

\* the blossom_index allocate_blossom returns
allocate_blossom_index(self) == N + self.count_blossoms

allocate_blossom(self, first_blossom_child) ==
    [self EXCEPT
        !.buffer[allocate_blossom_index(self)] = <<PrimalNode_new>>,
        !.first_blossom_child[self.count_blossoms] = first_blossom_child,
        !.count_blossoms = self.count_blossoms + 1]

\* dispose_blossom without debug_assert!(self.has_node(blossom_index))
dispose_blossom_asserts_blossom_only(self, blossom_index) ==
    /\ is_blossom_asserts(self, blossom_index)
    /\ is_blossom(blossom_index)

dispose_blossom_asserts(self, blossom_index) ==
    /\ is_blossom_asserts(self, blossom_index)
    /\ is_blossom(blossom_index)
    /\ has_node(self, blossom_index)

\* dispose_blossom that also frees the slot of the blossom's first child
dispose_blossom_with_child(self, blossom_index) ==
    LET child == self.first_blossom_child[blossom_index - N]
    IN  [self EXCEPT
            !.buffer = [id \in NodeIds |->
                          IF id = blossom_index \/ id = child THEN <<>> ELSE @[id]],
            !.first_blossom_child[blossom_index - N] = NONE]

\* dispose_blossom that gives the last allocated ID back to the allocator
dispose_blossom_reclaim(self, blossom_index) ==
    [self EXCEPT
        !.buffer[blossom_index] = <<>>,
        !.first_blossom_child[blossom_index - N] = NONE,
        !.count_blossoms = IF blossom_index - N = @ - 1 THEN @ - 1 ELSE @]

dispose_blossom(self, blossom_index) ==
    [self EXCEPT
        !.buffer[blossom_index] = <<>>,
        !.first_blossom_child[blossom_index - N] = NONE]

\* a slot the arena holds in the current episode: below its counter, and Some
present(self, id) ==
    /\ IF id < N THEN id < self.count_defects ELSE (id - N) < self.count_blossoms
    /\ has_node(self, id)

(***************************************************************************)
(* Grow states and temporary matches.  set_grow_state forwards to the      *)
(* DualInterface; the forwarded calls of one operation are listed in       *)
(* last.dual as <<node, grow_state>>.                                      *)
(***************************************************************************)
set_grow_state(self, node_index, grow_state) ==
    [self EXCEPT !.buffer[node_index][1].grow_state = grow_state]

\* temporary_match with the debug_assert! on node_1 only
temporary_match_asserts_first(self, node_1, node_2) ==
    has_node(self, node_1) /\ is_outer_blossom(get_node(self, node_1))

temporary_match_asserts(self, node_1, node_2) ==
    /\ has_node(self, node_1) /\ is_outer_blossom(get_node(self, node_1))
    /\ has_node(self, node_2) /\ is_outer_blossom(get_node(self, node_2))

\* temporary_match whose second node is made its own sibling
temporary_match_self_sibling(self, node_1, node_2, touch_1, touch_2, vertex_1, vertex_2) ==
    LET s1 == set_grow_state(self, node_1, "Stay")
        s2 == set_grow_state(s1, node_2, "Stay")
        s3 == [s2 EXCEPT !.buffer[node_1][1] =
                 [remove_from_alternating_tree(@) EXCEPT
                    !.sibling = node_2,
                    !.link = [touch |-> touch_1, through |-> vertex_1,
                              peer_touch |-> touch_2, peer_through |-> vertex_2]]]
    IN  [s3 EXCEPT !.buffer[node_2][1] =
                 [remove_from_alternating_tree(@) EXCEPT
                    !.sibling = node_2,
                    !.link = [touch |-> touch_2, through |-> vertex_2,
                              peer_touch |-> touch_1, peer_through |-> vertex_1]]]

temporary_match(self, node_1, node_2, touch_1, touch_2, vertex_1, vertex_2) ==
    LET s1 == set_grow_state(self, node_1, "Stay")
        s2 == set_grow_state(s1, node_2, "Stay")
        s3 == [s2 EXCEPT !.buffer[node_1][1] =
                 [remove_from_alternating_tree(@) EXCEPT
                    !.sibling = node_2,
                    !.link = [touch |-> touch_1, through |-> vertex_1,
                              peer_touch |-> touch_2, peer_through |-> vertex_2]]]
    IN  [s3 EXCEPT !.buffer[node_2][1] =
                 [remove_from_alternating_tree(@) EXCEPT
                    !.sibling = node_1,
                    !.link = [touch |-> touch_2, through |-> vertex_2,
                              peer_touch |-> touch_1, peer_through |-> vertex_1]]]

\* the four usu! of temporary_match_with_link find a value
temporary_match_with_link_asserts(self, node_1, link_1, node_2) ==
    /\ link_1.touch # NONE /\ link_1.peer_touch # NONE
    /\ link_1.through # NONE /\ link_1.peer_through # NONE
    /\ temporary_match_asserts(self, node_1, node_2)

temporary_match_with_link(self, node_1, link_1, node_2) ==
    temporary_match(self, node_1, node_2, link_1.touch, link_1.peer_touch,
                    link_1.through, link_1.peer_through)

\* temporary_match_virtual_vertex that keeps the sibling the node had
temporary_match_virtual_vertex_keep_sibling(self, node, touch, vertex, virtual_vertex) ==
    LET s1 == set_grow_state(self, node, "Stay")
    IN  [s1 EXCEPT !.buffer[node][1] =
                 [remove_from_alternating_tree(@) EXCEPT
                    !.link = [touch |-> touch, through |-> vertex,
                              peer_touch |-> NONE, peer_through |-> virtual_vertex]]]

temporary_match_virtual_vertex_asserts(self, node) ==
    has_node(self, node) /\ is_outer_blossom(get_node(self, node))

temporary_match_virtual_vertex(self, node, touch, vertex, virtual_vertex) ==
    LET s1 == set_grow_state(self, node, "Stay")
    IN  [s1 EXCEPT !.buffer[node][1] =
                 [remove_from_alternating_tree(@) EXCEPT
                    !.sibling = NONE,
                    !.link = [touch |-> touch, through |-> vertex,
                              peer_touch |-> NONE, peer_through |-> virtual_vertex]]]

(***************************************************************************)
(* Blossom containment.                                                    *)
(***************************************************************************)
RECURSIVE get_outer_blossom(_, _)
get_outer_blossom(self, node_index) ==
    LET node == get_node(self, node_index)
    IN  IF node.grow_state = "None"
        THEN get_outer_blossom(self, node.parent)
        ELSE node_index

\* debug_assert!(!self.get_node(node_index).is_outer_blossom())
get_second_outer_blossom_asserts(self, node_index) ==
    has_node(self, node_index) /\ ~is_outer_blossom(get_node(self, node_index))

\* get_second_outer_blossom that returns the node it was given
get_second_outer_blossom_input(self, node_index) == node_index

\* the loop of get_second_outer_blossom, with the inner node remembered last
RECURSIVE get_second_outer_blossom_from(_, _, _)
get_second_outer_blossom_from(self, node_index, second_outer_blossom) ==
    LET node == get_node(self, node_index)
    IN  IF node.grow_state = "None"
        THEN get_second_outer_blossom_from(self, node.parent, node_index)
        ELSE second_outer_blossom

get_second_outer_blossom(self, node_index) ==
    get_second_outer_blossom_from(self, node_index, node_index)

\* a call that never returns has this result
DIVERGES == NONE - 1

\* func(child_index, &node.link)
ChildCallback(child_index, link) == [node |-> child_index, link |-> link]

\* debug_assert! of get_first_blossom_child and the usu! of get_node(first_child)
iterate_blossom_children_asserts(self, blossom_index) ==
    /\ is_blossom_asserts(self, blossom_index)
    /\ is_blossom(blossom_index)
    /\ has_node(self, blossom_index)
    /\ get_first_blossom_child(self, blossom_index) # NONE
    /\ has_node(self, get_first_blossom_child(self, blossom_index))

\* the while loop of iterate_blossom_children from child_index on, the
\* members in seen having been visited: it returns at first_child, panics
\* on the usu! of an absent sibling or node, and never returns once it
\* meets a member other than first_child again
RECURSIVE blossom_children_from(_, _, _, _)
blossom_children_from(self, first_child, child_index, seen) ==
    IF child_index = first_child
    THEN [status |-> "returned", emitted |-> <<>>]
    ELSE IF child_index = NONE \/ ~has_node(self, child_index)
    THEN [status |-> "panicked", emitted |-> <<>>]
    ELSE IF child_index \in seen
    THEN [status |-> "diverges", emitted |-> <<>>]
    ELSE LET node == get_node(self, child_index)
             rest == blossom_children_from(self, first_child, node.sibling,
                                           seen \cup {child_index})
         IN  [status |-> rest.status,
              emitted |-> <<ChildCallback(child_index, node.link)>> \o rest.emitted]

\* iterate_blossom_children that calls func on the members after the first only
iterate_blossom_children_skip_first(self, blossom_index) ==
    LET first_child == get_first_blossom_child(self, blossom_index)
        first_child_node == get_node(self, first_child)
    IN  blossom_children_from(self, first_child, first_child_node.sibling, {})

iterate_blossom_children(self, blossom_index) ==
    LET first_child == get_first_blossom_child(self, blossom_index)
        first_child_node == get_node(self, first_child)
        rest == blossom_children_from(self, first_child, first_child_node.sibling, {})
    IN  [status |-> rest.status,
         emitted |-> <<ChildCallback(first_child, first_child_node.link)>> \o rest.emitted]

\* whether node x is node n or lies inside blossom n, at any depth
RECURSIVE InNode(_, _, _)
InNode(self, x, n) ==
    \/ x = n
    \/ /\ has_node(self, x)
       /\ get_node(self, x).grow_state = "None"
       /\ get_node(self, x).parent # NONE
       /\ InNode(self, get_node(self, x).parent, n)

\* the defects node n holds: n itself, or the defects inside blossom n
DefectsOf(self, n) == {d \in DefectIds : present(self, d) /\ InNode(self, d, n)}

(***************************************************************************)
(* Matching extraction.  A callback func(node, target, link) is a record;  *)
(* an iterator is the sequence of its callbacks.                           *)
(***************************************************************************)
Callback(node_index, kind, target, link) ==
    [node |-> node_index, kind |-> kind, target |-> target, link |-> link]

\* the indices iterate_intermediate_matching visits, in its order
index_chain(self) ==
    [k \in 1 .. (self.count_defects + self.count_blossoms) |->
        IF k <= self.count_defects THEN k - 1 ELSE N + (k - self.count_defects - 1)]

\* the debug_assert! and the unwrap applied to blossoms only: a defect node
\* is walked whether it is matched or not
iterate_intermediate_matching_asserts_blossoms(self) ==
    \A k \in DOMAIN index_chain(self) :
        LET node_index == index_chain(self)[k]
        IN  (/\ is_blossom(node_index)
             /\ has_node(self, node_index)
             /\ is_outer_blossom(get_node(self, node_index)))
            => /\ is_matched(get_node(self, node_index))
               /\ (get_node(self, node_index).sibling = NONE
                     => get_node(self, node_index).link.peer_through # NONE)

\* debug_assert!(node.is_matched()) and the unwrap of link.peer_through
iterate_intermediate_matching_asserts(self) ==
    \A k \in DOMAIN index_chain(self) :
        LET node_index == index_chain(self)[k]
        IN  (has_node(self, node_index) /\ is_outer_blossom(get_node(self, node_index)))
            => /\ is_matched(get_node(self, node_index))
               /\ (get_node(self, node_index).sibling = NONE
                     => get_node(self, node_index).link.peer_through # NONE)

\* the loop body without the peer_index > node_index test: a pair is reported at both ends
intermediate_matching_of_both_ends(self, node_index) ==
    IF ~has_node(self, node_index)
    THEN <<>>
    ELSE LET node == get_node(self, node_index)
         IN  IF ~is_outer_blossom(node)
             THEN <<>>
             ELSE IF node.sibling # NONE
                  THEN <<Callback(node_index, "Peer", node.sibling, node.link)>>
                  ELSE <<Callback(node_index, "VirtualVertex", node.link.peer_through, node.link)>>

\* the body of the for loop, for one index
intermediate_matching_of(self, node_index) ==
    IF ~has_node(self, node_index)
    THEN <<>>
    ELSE LET node == get_node(self, node_index)
         IN  IF ~is_outer_blossom(node)
             THEN <<>>
             ELSE IF node.sibling # NONE
                  THEN IF node.sibling > node_index
                       THEN <<Callback(node_index, "Peer", node.sibling, node.link)>>
                       ELSE <<>>
                  ELSE <<Callback(node_index, "VirtualVertex", node.link.peer_through, node.link)>>

RECURSIVE intermediate_matching_from(_, _)
intermediate_matching_from(self, k) ==
    IF k > Len(index_chain(self))
    THEN <<>>
    ELSE intermediate_matching_of(self, index_chain(self)[k])
            \o intermediate_matching_from(self, k + 1)

iterate_intermediate_matching(self) == intermediate_matching_from(self, 1)

RECURSIVE iterate_blossom_matchings(_, _, _)
RECURSIVE iterate_blossom_matchings_cycle(_, _, _)
RECURSIVE iterate_expand_matching(_, _, _, _)

iterate_expand_matching(self, node_index, peer_index, link) ==
    (IF is_blossom(node_index)
     THEN iterate_blossom_matchings(self, link.touch, node_index) ELSE <<>>)
    \o (IF is_blossom(peer_index)
        THEN iterate_blossom_matchings(self, link.peer_touch, peer_index) ELSE <<>>)
    \o <<Callback(IF is_blossom(node_index) THEN link.touch ELSE node_index,
                  "Peer",
                  IF is_blossom(peer_index) THEN link.peer_touch ELSE peer_index,
                  link)>>

\* the while loop of iterate_blossom_matchings: the pairs of one cycle, from inner_index on
iterate_blossom_matchings_cycle(self, touch, inner_index) ==
    IF inner_index = touch
    THEN <<>>
    ELSE LET primal_inner == get_node(self, inner_index)
             peer_index == primal_inner.sibling
             next_inner_index == get_node(self, peer_index).sibling
         IN  iterate_expand_matching(self, inner_index, peer_index, primal_inner.link)
                \o iterate_blossom_matchings_cycle(self, touch, next_inner_index)

\* iterate_blossom_matchings that pairs the touch's own cycle and does not climb to the parent
iterate_blossom_matchings_one_level(self, touch, stop_at) ==
    LET node == get_node(self, touch)
    IN  IF node.grow_state # "None"
        THEN <<>>
        ELSE iterate_blossom_matchings_cycle(self, touch, node.sibling)

iterate_blossom_matchings(self, touch, stop_at) ==
    LET node == get_node(self, touch)
    IN  IF node.grow_state # "None"
        THEN <<>>
        ELSE iterate_blossom_matchings_cycle(self, touch, node.sibling)
                \o (IF node.parent = stop_at
                    THEN <<>>
                    ELSE iterate_blossom_matchings(self, node.parent, stop_at))

\* the closure iterate_perfect_matching hands to iterate_intermediate_matching
perfect_matching_of(self, cb) ==
    (IF is_blossom(cb.node)
     THEN iterate_blossom_matchings(self, cb.link.touch, cb.node) ELSE <<>>)
    \o (IF cb.kind = "Peer" /\ is_blossom(cb.target)
        THEN iterate_blossom_matchings(self, cb.link.peer_touch, cb.target) ELSE <<>>)
    \o <<Callback(IF is_blossom(cb.node) THEN cb.link.touch ELSE cb.node,
                  cb.kind,
                  IF cb.kind = "Peer" /\ is_blossom(cb.target)
                  THEN cb.link.peer_touch ELSE cb.target,
                  cb.link)>>

RECURSIVE perfect_matching_from(_, _, _)
perfect_matching_from(self, intermediate, k) ==
    IF k > Len(intermediate)
    THEN <<>>
    ELSE perfect_matching_of(self, intermediate[k])
            \o perfect_matching_from(self, intermediate, k + 1)

iterate_perfect_matching(self) ==
    perfect_matching_from(self, iterate_intermediate_matching(self), 1)

(***************************************************************************)
(* Blossom formation, by the primal module: a new blossom is allocated, a  *)
(* cycle of outer nodes becomes its members (inner nodes, siblings around  *)
(* the cycle), each member's link naming its touch with the next member.   *)
(* touches[i] = <<touch, peer_touch>> for cycle[i] and its successor.      *)
(***************************************************************************)
RECURSIVE blossom_form_members(_, _, _, _, _)
blossom_form_members(self, blossom_index, cycle, touches, i) ==
    IF i > Len(cycle)
    THEN self
    ELSE LET next == cycle[(i % Len(cycle)) + 1]
             wired == [self EXCEPT !.buffer[cycle[i]][1] =
                         [grow_state |-> "None", parent |-> blossom_index,
                          first_child |-> NONE, sibling |-> next,
                          link |-> [touch |-> touches[i][1],
                                    through |-> DefectVertex(touches[i][1]),
                                    peer_touch |-> touches[i][2],
                                    peer_through |-> DefectVertex(touches[i][2])]]]
         IN  blossom_form_members(wired, blossom_index, cycle, touches, i + 1)

blossom_form(self, cycle, touches) ==
    blossom_form_members(allocate_blossom(self, cycle[1]),
                         allocate_blossom_index(self), cycle, touches, 1)

(***************************************************************************)
(* The calls on the arena, as actions.  A failed assertion halts the       *)
(* program: primal_fatal is set, the arena is left as it was, and no       *)
(* further call is made.                                                   *)
(***************************************************************************)
Call(op, args, result, emitted, dual_calls) ==
    [op |-> op, args |-> args, result |-> result, emitted |-> emitted, dual |-> dual_calls]

Halt(op, args) ==
    /\ primal_fatal' = TRUE
    /\ last' = Call(op, args, NONE, <<>>, <<>>)
    /\ UNCHANGED <<primal_nodes, episode_ids>>

Clear ==
    /\ ~primal_fatal
    /\ primal_nodes' = clear(primal_nodes)
    /\ last' = Call("clear", <<>>, NONE, <<>>, <<>>)
    /\ episode_ids' = {}
    /\ UNCHANGED primal_fatal

CheckNodeIndex(node_index) ==
    /\ ~primal_fatal
    /\ IF check_node_index_asserts(primal_nodes, node_index)
       THEN /\ primal_nodes' = check_node_index(primal_nodes, node_index)
            /\ last' = Call("check_node_index", <<node_index>>, NONE, <<>>, <<>>)
            /\ UNCHANGED <<primal_fatal, episode_ids>>
       ELSE Halt("check_node_index", <<node_index>>)

AllocateBlossom(first_blossom_child) ==
    /\ ~primal_fatal
    /\ IF allocate_blossom_asserts(primal_nodes)
       THEN /\ primal_nodes' = allocate_blossom(primal_nodes, first_blossom_child)
            /\ last' = Call("allocate_blossom", <<first_blossom_child>>,
                            allocate_blossom_index(primal_nodes), <<>>, <<>>)
            /\ episode_ids' = episode_ids \cup {allocate_blossom_index(primal_nodes)}
            /\ UNCHANGED primal_fatal
       ELSE Halt("allocate_blossom", <<first_blossom_child>>)

DisposeBlossom(blossom_index) ==
    /\ ~primal_fatal
    /\ IF dispose_blossom_asserts(primal_nodes, blossom_index)
       THEN /\ primal_nodes' = dispose_blossom(primal_nodes, blossom_index)
            /\ last' = Call("dispose_blossom", <<blossom_index>>, NONE, <<>>, <<>>)
            /\ UNCHANGED <<primal_fatal, episode_ids>>
       ELSE Halt("dispose_blossom", <<blossom_index>>)

TemporaryMatchVirtualVertex(node, touch, vertex, virtual_vertex) ==
    /\ ~primal_fatal
    /\ IF temporary_match_virtual_vertex_asserts(primal_nodes, node)
       THEN /\ primal_nodes' =
                  temporary_match_virtual_vertex(primal_nodes, node, touch, vertex, virtual_vertex)
            /\ last' = Call("temporary_match_virtual_vertex",
                            <<node, touch, vertex, virtual_vertex>>, NONE, <<>>,
                            <<<<node, "Stay">>>>)
            /\ UNCHANGED <<primal_fatal, episode_ids>>
       ELSE Halt("temporary_match_virtual_vertex", <<node, touch, vertex, virtual_vertex>>)

TemporaryMatch(node_1, node_2, touch_1, touch_2, vertex_1, vertex_2) ==
    /\ ~primal_fatal
    /\ IF temporary_match_asserts(primal_nodes, node_1, node_2)
       THEN /\ primal_nodes' = temporary_match(primal_nodes, node_1, node_2,
                                               touch_1, touch_2, vertex_1, vertex_2)
            /\ last' = Call("temporary_match",
                            <<node_1, node_2, touch_1, touch_2, vertex_1, vertex_2>>,
                            NONE, <<>>, <<<<node_1, "Stay">>, <<node_2, "Stay">>>>)
            /\ UNCHANGED <<primal_fatal, episode_ids>>
       ELSE Halt("temporary_match", <<node_1, node_2, touch_1, touch_2, vertex_1, vertex_2>>)

TemporaryMatchWithLink(node_1, link_1, node_2) ==
    /\ ~primal_fatal
    /\ IF temporary_match_with_link_asserts(primal_nodes, node_1, link_1, node_2)
       THEN /\ primal_nodes' = temporary_match_with_link(primal_nodes, node_1, link_1, node_2)
            /\ last' = Call("temporary_match_with_link", <<node_1, link_1, node_2>>,
                            NONE, <<>>, <<<<node_1, "Stay">>, <<node_2, "Stay">>>>)
            /\ UNCHANGED <<primal_fatal, episode_ids>>
       ELSE Halt("temporary_match_with_link", <<node_1, link_1, node_2>>)

\* get_node_mut(node).remove_from_matching()
RemoveFromMatching(node) ==
    /\ ~primal_fatal
    /\ IF has_node(primal_nodes, node)
            /\ remove_from_matching_asserts(get_node(primal_nodes, node))
       THEN /\ primal_nodes' = [primal_nodes EXCEPT
                                  !.buffer[node][1] = remove_from_matching(@)]
            /\ last' = Call("remove_from_matching", <<node>>, NONE, <<>>, <<>>)
            /\ UNCHANGED <<primal_fatal, episode_ids>>
       ELSE Halt("remove_from_matching", <<node>>)

PrimalInit ==
    /\ primal_nodes = PrimalNodes_new
    /\ primal_fatal = FALSE
    /\ last = Call("new", <<>>, NONE, <<>>, <<>>)
    /\ episode_ids = {}

BlossomForm(cycle, touches) ==
    /\ ~primal_fatal
    /\ IF allocate_blossom_asserts(primal_nodes)
       THEN /\ primal_nodes' = blossom_form(primal_nodes, cycle, touches)
            /\ last' = Call("blossom_form", cycle,
                            allocate_blossom_index(primal_nodes), <<>>, <<>>)
            /\ episode_ids' = episode_ids \cup {allocate_blossom_index(primal_nodes)}
            /\ UNCHANGED primal_fatal
       ELSE Halt("blossom_form", cycle)

IterateIntermediateMatching ==
    /\ ~primal_fatal
    /\ IF iterate_intermediate_matching_asserts(primal_nodes)
       THEN /\ last' = Call("iterate_intermediate_matching", <<>>, NONE,
                            iterate_intermediate_matching(primal_nodes), <<>>)
            /\ UNCHANGED <<primal_nodes, primal_fatal, episode_ids>>
       ELSE Halt("iterate_intermediate_matching", <<>>)

IteratePerfectMatching ==
    /\ ~primal_fatal
    /\ IF iterate_intermediate_matching_asserts(primal_nodes)
       THEN /\ last' = Call("iterate_perfect_matching", <<>>, NONE,
                            iterate_perfect_matching(primal_nodes), <<>>)
            /\ UNCHANGED <<primal_nodes, primal_fatal, episode_ids>>
       ELSE Halt("iterate_perfect_matching", <<>>)

\* a call that never returns leaves the caller inside it
Returned == last.result # DIVERGES

IterateBlossomChildren(blossom_index) ==
    /\ ~primal_fatal
    /\ Returned
    /\ IF iterate_blossom_children_asserts(primal_nodes, blossom_index)
       THEN \A walk \in {iterate_blossom_children(primal_nodes, blossom_index)} :
              /\ last' = Call("iterate_blossom_children", <<blossom_index>>,
                              IF walk.status = "diverges" THEN DIVERGES ELSE NONE,
                              walk.emitted, <<>>)
              /\ primal_fatal' = (walk.status = "panicked")
              /\ UNCHANGED <<primal_nodes, episode_ids>>
       ELSE Halt("iterate_blossom_children", <<blossom_index>>)

GetOuterBlossom(node_index) ==
    /\ ~primal_fatal
    /\ Returned
    /\ IF has_node(primal_nodes, node_index)
       THEN /\ last' = Call("get_outer_blossom", <<node_index>>,
                            get_outer_blossom(primal_nodes, node_index), <<>>, <<>>)
            /\ UNCHANGED <<primal_nodes, primal_fatal, episode_ids>>
       ELSE Halt("get_outer_blossom", <<node_index>>)

GetSecondOuterBlossom(node_index) ==
    /\ ~primal_fatal
    /\ Returned
    /\ IF get_second_outer_blossom_asserts(primal_nodes, node_index)
       THEN /\ last' = Call("get_second_outer_blossom", <<node_index>>,
                            get_second_outer_blossom(primal_nodes, node_index), <<>>, <<>>)
            /\ UNCHANGED <<primal_nodes, primal_fatal, episode_ids>>
       ELSE Halt("get_second_outer_blossom", <<node_index>>)

(***************************************************************************)
(* DualModuleRTL.  A Vec is a function on 0 .. len-1; vertices and edges   *)
(* are records of their registers; an Option<Response> is a sequence of    *)
(* length 0 (None) or 1 (Some).                                            *)
(***************************************************************************)
\* the SolverInitializer the module is built on: a path with a virtual
\* vertex at one end and an erased (weight 0) edge at the other
initializer ==
    [vertex_num |-> 4,
     weighted_edges |-> <<<<0, 1, 2>>, <<1, 2, 2>>, <<2, 3, 0>>>>,
     virtual_vertices |-> {0}]

VertexIndices == 0 .. (initializer.vertex_num - 1)
EdgeIndices == 0 .. (Len(initializer.weighted_edges) - 1)

\* the largest length a grow() call is given
MaxLength == 1
\* grow() is not called once it would take a vertex beyond this
MaxGrown == 2
\* add_dual_node() is not called once this many dual nodes exist: a defect
\* on every real vertex and one blossom
MaxNodes == Cardinality(VertexIndices \ initializer.virtual_vertices) + 1

SetSpeed(node, speed) == [type |-> "SetSpeed", node |-> node, speed |-> speed]
SetBlossom(node, blossom) == [type |-> "SetBlossom", node |-> node, blossom |-> blossom]
AddDefectVertex(vertex, node) == [type |-> "AddDefectVertex", vertex |-> vertex, node |-> node]
FindObstacle(region_preference) ==
    [type |-> "FindObstacle", region_preference |-> region_preference]
Grow(length) == [type |-> "Grow", length |-> length]

\* the edges incident to a vertex, in the order clear() pushes them
RECURSIVE edge_indices_upto(_, _)
edge_indices_upto(vertex_index, k) ==
    IF k = 0
    THEN <<>>
    ELSE LET e == initializer.weighted_edges[k]
         IN  IF e[1] = vertex_index \/ e[2] = vertex_index
             THEN Append(edge_indices_upto(vertex_index, k - 1), k - 1)
             ELSE edge_indices_upto(vertex_index, k - 1)

DualModuleRTL_clear ==
    [vertices |->
        [vertex_index \in VertexIndices |->
            [vertex_index |-> vertex_index,
             edge_indices |-> edge_indices_upto(vertex_index, Len(initializer.weighted_edges)),
             speed |-> "Stay",
             grown |-> 0,
             is_virtual |-> vertex_index \in initializer.virtual_vertices,
             is_defect |-> FALSE,
             node_index |-> NONE,
             root_index |-> NONE]],
     edges |->
        [edge_index \in EdgeIndices |->
            [edge_index |-> edge_index,
             weight |-> initializer.weighted_edges[edge_index + 1][3],
             left_index |-> initializer.weighted_edges[edge_index + 1][1],
             right_index |-> initializer.weighted_edges[edge_index + 1][2],
             left_growth |-> 0,
             right_growth |-> 0]],
     nodes |-> <<>>]

\* clear() asserts that every vertex has an incident edge
DualModuleRTL_clear_asserts ==
    \A vertex_index \in VertexIndices :
        edge_indices_upto(vertex_index, Len(initializer.weighted_edges)) # <<>>

get_speed(vertex) ==
    CASE vertex.speed = "Stay" -> 0
      [] vertex.speed = "Shrink" -> -1
      [] vertex.speed = "Grow" -> 1

is_tight(edge) == edge.left_growth + edge.right_growth >= edge.weight

\* get_peer and is_tight_from panic on a vertex that is not incident; the
\* callers pass an incident vertex
get_peer(edge, vertex) ==
    IF vertex = edge.left_index THEN edge.right_index ELSE edge.left_index

is_tight_from(edge, vertex) ==
    IF vertex = edge.left_index
    THEN edge.left_growth = edge.weight
    ELSE edge.right_growth = edge.weight

\* execute_stage with one arm changed: SetSpeed that also matches
\* root_index, or AddDefectVertex that restarts the vertex at grown = 0
Vertex_execute_stage_variant(vertex, dual_module, instruction, variant) ==
    CASE instruction.type = "AddDefectVertex" ->
            IF instruction.vertex = vertex.vertex_index
            THEN [vertex EXCEPT !.is_defect = TRUE, !.speed = "Grow",
                                !.root_index = instruction.node,
                                !.node_index = instruction.node,
                                !.grown = IF variant = "restart" THEN 0 ELSE @]
            ELSE vertex
      [] instruction.type = "SetSpeed" ->
            IF \/ instruction.node = vertex.node_index
               \/ variant = "by_root" /\ instruction.node = vertex.root_index
            THEN [vertex EXCEPT !.speed = instruction.speed]
            ELSE vertex
      [] instruction.type = "Grow" ->
            [vertex EXCEPT !.grown = vertex.grown + get_speed(vertex) * instruction.length]
      [] instruction.type = "SetBlossom" ->
            IF instruction.node = vertex.node_index \/ instruction.node = vertex.root_index
            THEN [vertex EXCEPT !.node_index = instruction.blossom, !.speed = "Grow"]
            ELSE vertex
      [] OTHER -> vertex

Vertex_execute_stage_speed_by_root(vertex, dual_module, instruction) ==
    Vertex_execute_stage_variant(vertex, dual_module, instruction, "by_root")

Vertex_execute_stage_restart(vertex, dual_module, instruction) ==
    Vertex_execute_stage_variant(vertex, dual_module, instruction, "restart")

\* execute_stage whose SetBlossom arm looks at node_index only
Vertex_execute_stage_node_only(vertex, dual_module, instruction) ==
    CASE instruction.type = "AddDefectVertex" ->
            IF instruction.vertex = vertex.vertex_index
            THEN [vertex EXCEPT !.is_defect = TRUE, !.speed = "Grow",
                                !.root_index = instruction.node,
                                !.node_index = instruction.node]
            ELSE vertex
      [] instruction.type = "SetSpeed" ->
            IF instruction.node = vertex.node_index
            THEN [vertex EXCEPT !.speed = instruction.speed]
            ELSE vertex
      [] instruction.type = "Grow" ->
            [vertex EXCEPT !.grown = vertex.grown + get_speed(vertex) * instruction.length]
      [] instruction.type = "SetBlossom" ->
            IF instruction.node = vertex.node_index
            THEN [vertex EXCEPT !.node_index = instruction.blossom, !.speed = "Grow"]
            ELSE vertex
      [] OTHER -> vertex

Vertex_execute_stage(vertex, dual_module, instruction) ==
    CASE instruction.type = "AddDefectVertex" ->
            IF instruction.vertex = vertex.vertex_index
            THEN [vertex EXCEPT !.is_defect = TRUE, !.speed = "Grow",
                                !.root_index = instruction.node,
                                !.node_index = instruction.node]
            ELSE vertex
      [] instruction.type = "SetSpeed" ->
            IF instruction.node = vertex.node_index
            THEN [vertex EXCEPT !.speed = instruction.speed]
            ELSE vertex
      [] instruction.type = "Grow" ->
            [vertex EXCEPT !.grown = vertex.grown + get_speed(vertex) * instruction.length]
      [] instruction.type = "SetBlossom" ->
            IF instruction.node = vertex.node_index \/ instruction.node = vertex.root_index
            THEN [vertex EXCEPT !.node_index = instruction.blossom, !.speed = "Grow"]
            ELSE vertex
      [] OTHER -> vertex

\* assert!(self.grown >= 0) of the Grow arm, on the vertex the stage produced
Vertex_execute_stage_asserts(vertex, dual_module, instruction) ==
    instruction.type = "Grow"
       => Vertex_execute_stage(vertex, dual_module, instruction).grown >= 0

\* the peers that propagate to the vertex, in the order of its edge_indices
RECURSIVE propagating_peers(_, _, _)
propagating_peers(vertex, dual_module, k) ==
    IF k = 0
    THEN <<>>
    ELSE LET edge == dual_module.edges[vertex.edge_indices[k]]
             peer_index == get_peer(edge, vertex.vertex_index)
             peer == dual_module.vertices[peer_index]
             before == propagating_peers(vertex, dual_module, k - 1)
         IN  IF is_tight_from(edge, peer_index) /\ peer.speed = "Grow"
             THEN Append(before, peer)
             ELSE before

\* update_stage that also takes over a vertex that has grown
Vertex_update_stage_grown(vertex, dual_module, instruction) ==
    LET peers == propagating_peers(vertex, dual_module, Len(vertex.edge_indices))
    IN  IF ~vertex.is_defect /\ ~vertex.is_virtual
        THEN IF peers # <<>>
             THEN [vertex EXCEPT !.node_index = peers[1].node_index,
                                 !.root_index = peers[1].root_index,
                                 !.speed = peers[1].speed]
             ELSE [vertex EXCEPT !.node_index = NONE, !.root_index = NONE,
                                 !.speed = "Stay"]
        ELSE vertex

Vertex_update_stage_virtual(vertex, dual_module, instruction) ==
    LET peers == propagating_peers(vertex, dual_module, Len(vertex.edge_indices))
    IN  IF ~vertex.is_defect /\ vertex.grown = 0
        THEN IF peers # <<>>
             THEN [vertex EXCEPT !.node_index = peers[1].node_index,
                                 !.root_index = peers[1].root_index,
                                 !.speed = peers[1].speed]
             ELSE [vertex EXCEPT !.node_index = NONE, !.root_index = NONE,
                                 !.speed = "Stay"]
        ELSE vertex

Vertex_update_stage(vertex, dual_module, instruction) ==
    LET peers == propagating_peers(vertex, dual_module, Len(vertex.edge_indices))
    IN  IF ~vertex.is_defect /\ ~vertex.is_virtual /\ vertex.grown = 0
        THEN IF peers # <<>>
             THEN [vertex EXCEPT !.node_index = peers[1].node_index,
                                 !.root_index = peers[1].root_index,
                                 !.speed = peers[1].speed]
             ELSE [vertex EXCEPT !.node_index = NONE, !.root_index = NONE,
                                 !.speed = "Stay"]
        ELSE vertex

\* both branches of the vertex write stage return None
Vertex_write_stage(vertex, dual_module, instruction) ==
    IF vertex.speed # "Shrink" THEN <<>> ELSE <<>>

\* execute_stage that grows an edge inside one node too
Edge_execute_stage_same_node(edge, dual_module, instruction) ==
    IF instruction.type = "Grow"
    THEN LET left_vertex == dual_module.vertices[edge.left_index]
             right_vertex == dual_module.vertices[edge.right_index]
         IN  [edge EXCEPT
                 !.left_growth = edge.left_growth + get_speed(left_vertex) * instruction.length,
                 !.right_growth = edge.right_growth + get_speed(right_vertex) * instruction.length]
    ELSE edge

Edge_execute_stage(edge, dual_module, instruction) ==
    IF instruction.type = "Grow"
    THEN LET left_vertex == dual_module.vertices[edge.left_index]
             right_vertex == dual_module.vertices[edge.right_index]
         IN  IF left_vertex.node_index # right_vertex.node_index
             THEN [edge EXCEPT
                     !.left_growth = edge.left_growth + get_speed(left_vertex) * instruction.length,
                     !.right_growth = edge.right_growth + get_speed(right_vertex) * instruction.length]
             ELSE edge
    ELSE edge

\* the Grow arm of the edge without its assert!s
Edge_execute_stage_unchecked(edge, dual_module, instruction) == TRUE

\* the three assert!s of the Grow arm, on the edge the stage produced
Edge_execute_stage_asserts(edge, dual_module, instruction) ==
    LET next == Edge_execute_stage(edge, dual_module, instruction)
    IN  (instruction.type = "Grow"
           /\ dual_module.vertices[edge.left_index].node_index
                # dual_module.vertices[edge.right_index].node_index)
           => /\ next.left_growth >= 0
              /\ next.right_growth >= 0
              /\ next.left_growth + next.right_growth <= next.weight

Edge_update_stage(edge, dual_module, instruction) == edge

Edge_write_stage(edge, dual_module, instruction) == <<>>

\* Response::reduce
Response_reduce(resp1, resp2) == <<>>

(***************************************************************************)
(* pipeline_staged! and execute_instruction.  A stage is a sweep over the  *)
(* vertices and a sweep over the edges; every unit is cloned from          *)
(* dual_module and run against dual_module, and the two collected vectors  *)
(* are assigned once both sweeps are done.  The sweep order is a           *)
(* parameter; the code sweeps in index order.                              *)
(***************************************************************************)
Vertex_stage(stage_name, vertex, dual_module, instruction) ==
    IF stage_name = "execute_stage"
    THEN Vertex_execute_stage(vertex, dual_module, instruction)
    ELSE Vertex_update_stage(vertex, dual_module, instruction)

Edge_stage(stage_name, edge, dual_module, instruction) ==
    IF stage_name = "execute_stage"
    THEN Edge_execute_stage(edge, dual_module, instruction)
    ELSE Edge_update_stage(edge, dual_module, instruction)

\* a sweep whose units read and write the vector being built
RECURSIVE vertices_next_in_place(_, _, _, _, _)
vertices_next_in_place(dual_module, instruction, stage_name, order, k) ==
    IF k = 0
    THEN dual_module.vertices
    ELSE LET done == vertices_next_in_place(dual_module, instruction, stage_name, order, k - 1)
             i == order[k]
         IN  [done EXCEPT ![i] =
                 Vertex_stage(stage_name, done[i],
                              [dual_module EXCEPT !.vertices = done], instruction)]

\* vertices_next of the macro, after the first k units of the order
RECURSIVE vertices_next(_, _, _, _, _)
vertices_next(dual_module, instruction, stage_name, order, k) ==
    IF k = 0
    THEN dual_module.vertices
    ELSE LET done == vertices_next(dual_module, instruction, stage_name, order, k - 1)
             i == order[k]
         IN  [done EXCEPT ![i] =
                 Vertex_stage(stage_name, dual_module.vertices[i], dual_module, instruction)]

\* edges_next of the macro, after the first k units of the order
RECURSIVE edges_next(_, _, _, _, _)
edges_next(dual_module, instruction, stage_name, order, k) ==
    IF k = 0
    THEN dual_module.edges
    ELSE LET done == edges_next(dual_module, instruction, stage_name, order, k - 1)
             i == order[k]
         IN  [done EXCEPT ![i] =
                 Edge_stage(stage_name, dual_module.edges[i], dual_module, instruction)]

pipeline_staged(dual_module, instruction, stage_name, vertex_order, edge_order) ==
    [dual_module EXCEPT
        !.vertices = vertices_next(dual_module, instruction, stage_name,
                                   vertex_order, Len(vertex_order)),
        !.edges = edges_next(dual_module, instruction, stage_name,
                             edge_order, Len(edge_order))]

\* no assert! of the stage fails in any unit
pipeline_staged_asserts(dual_module, instruction, stage_name) ==
    stage_name = "execute_stage"
       => /\ \A i \in VertexIndices :
                Vertex_execute_stage_asserts(dual_module.vertices[i], dual_module, instruction)
          /\ \A i \in EdgeIndices :
                Edge_execute_stage_asserts(dual_module.edges[i], dual_module, instruction)

\* the order of .iter() over a Vec of the given indices
iter(indices) == [k \in 1 .. Cardinality(indices) |-> k - 1]

\* the sweep orders over the given indices
Orders(indices) ==
    {order \in [1 .. Cardinality(indices) -> indices] :
        \A a, b \in DOMAIN order : a # b => order[a] # order[b]}

\* the registers execute_instruction leaves, with the sweeps in the given
\* orders: the update stage runs on the registers the execute stage assigned
execute_instruction_in(dual_module, instruction, vertex_order, edge_order) ==
    CHOOSE updated \in
        {pipeline_staged(executed, instruction, "update_stage", vertex_order, edge_order) :
            executed \in {pipeline_staged(dual_module, instruction, "execute_stage",
                                          vertex_order, edge_order)}} : TRUE

execute_instruction_asserts(dual_module, instruction) ==
    pipeline_staged_asserts(dual_module, instruction, "execute_stage")

\* the write-stage outputs of all vertices chained with those of all edges
write_stage_outputs(dual_module, instruction) ==
    [k \in 1 .. (Cardinality(VertexIndices) + Cardinality(EdgeIndices)) |->
        IF k <= Cardinality(VertexIndices)
        THEN Vertex_write_stage(dual_module.vertices[k - 1], dual_module, instruction)
        ELSE Edge_write_stage(dual_module.edges[k - 1 - Cardinality(VertexIndices)],
                              dual_module, instruction)]

\* Iterator::reduce(Response::reduce) over the first k outputs
RECURSIVE write_stage_reduce(_, _)
write_stage_reduce(outputs, k) ==
    IF k = 1
    THEN outputs[1]
    ELSE Response_reduce(write_stage_reduce(outputs, k - 1), outputs[k])

\* the value execute_instruction returns: the reduction is bound to a local
\* that is not used, and the function's last expression is None
execute_instruction_response(dual_module, instruction) ==
    LET response == write_stage_reduce(write_stage_outputs(dual_module, instruction),
                                       Cardinality(VertexIndices) + Cardinality(EdgeIndices))
    IN  <<>>

execute_instruction(dual_module, instruction) ==
    execute_instruction_in(dual_module, instruction, iter(VertexIndices), iter(EdgeIndices))

\* the registers after the first k instructions of a list, swept in the given orders
RECURSIVE execute_instructions_in(_, _, _, _, _)
execute_instructions_in(dual_module, instructions, k, vertex_order, edge_order) ==
    IF k = 0
    THEN dual_module
    ELSE execute_instruction_in(
             execute_instructions_in(dual_module, instructions, k - 1, vertex_order, edge_order),
             instructions[k], vertex_order, edge_order)

execute_instructions(dual_module, instructions) ==
    execute_instructions_in(dual_module, instructions, Len(instructions),
                            iter(VertexIndices), iter(EdgeIndices))

(***************************************************************************)
(* The DualModuleImpl operations.  A dual node is the record behind a      *)
(* DualNodePtr: its index and its class.                                   *)
(***************************************************************************)
DefectNode(index, defect_index) ==
    [index |-> index, class |-> "DefectVertex", defect_index |-> defect_index,
     nodes_circle |-> <<>>]

BlossomNode(index, nodes_circle) ==
    [index |-> index, class |-> "Blossom", defect_index |-> NONE,
     nodes_circle |-> nodes_circle]

RECURSIVE get_blossom_roots(_, _)
RECURSIVE get_blossom_roots_circle(_, _, _)
\* the roots of the first k members of a circle, appended in order
get_blossom_roots_circle(nodes, nodes_circle, k) ==
    IF k = 0
    THEN <<>>
    ELSE get_blossom_roots_circle(nodes, nodes_circle, k - 1)
            \o get_blossom_roots(nodes, nodes_circle[k])

get_blossom_roots(nodes, node_index) ==
    LET node == nodes[node_index + 1]
    IN  IF node.class = "Blossom"
        THEN get_blossom_roots_circle(nodes, node.nodes_circle, Len(node.nodes_circle))
        ELSE <<node.index>>

add_dual_node_instructions(node) ==
    IF node.class = "Blossom"
    THEN [k \in 1 .. Len(node.nodes_circle) |-> SetBlossom(node.nodes_circle[k], node.index)]
    ELSE <<AddDefectVertex(node.defect_index, node.index)>>

\* the SetBlossom instructions remove_blossom issues for the first k members
RECURSIVE remove_blossom_instructions(_, _, _)
remove_blossom_instructions(nodes, nodes_circle, k) ==
    IF k = 0
    THEN <<>>
    ELSE LET roots == get_blossom_roots(nodes, nodes_circle[k])
         IN  remove_blossom_instructions(nodes, nodes_circle, k - 1)
                \o [r \in 1 .. Len(roots) |-> SetBlossom(roots[r], nodes_circle[k])]

(***************************************************************************)
(* The calls on the dual module.  A failed assert!, unwrap or              *)
(* unreachable! ends the program: dual_fatal is set and no further call    *)
(* is made.  A panic inside a stage leaves the registers as they were,     *)
(* since the macro assigns them after both sweeps.                         *)
(***************************************************************************)
\* before: the vertices before a blossom's add_dual_node, kept through the
\* remove_blossom of that blossom when it is the next call
DualCall(op, args, instructions, response) ==
    [op |-> op, args |-> args, instructions |-> instructions, response |-> response,
     before |-> <<>>]

DualInit ==
    /\ dual_module_rtl = DualModuleRTL_clear
    /\ dual_fatal = ~DualModuleRTL_clear_asserts
    /\ dual_last = DualCall("new_empty", <<>>, <<>>, <<>>)
    /\ expanded = {}
    /\ grow_log = [phase |-> "load", lengths |-> <<>>]

DualClear ==
    /\ ~dual_fatal
    /\ dual_module_rtl' = DualModuleRTL_clear
    /\ dual_fatal' = ~DualModuleRTL_clear_asserts
    /\ dual_last' = DualCall("clear", <<>>, <<>>, <<>>)
    /\ expanded' = {}

AddDualNode(node) ==
    /\ ~dual_fatal
    /\ LET pushed == [dual_module_rtl EXCEPT !.nodes = Append(@, node)]
           instructions == add_dual_node_instructions(node)
       IN  IF node.index # Len(dual_module_rtl.nodes)
           THEN /\ dual_fatal' = TRUE
                /\ dual_last' = DualCall("add_dual_node", <<node>>, <<>>, <<>>)
                /\ UNCHANGED dual_module_rtl
           ELSE IF node.class = "DefectVertex"
                     /\ dual_module_rtl.vertices[node.defect_index].is_defect
                THEN /\ dual_fatal' = TRUE
                     /\ dual_last' = DualCall("add_dual_node", <<node>>, <<>>, <<>>)
                     /\ dual_module_rtl' = pushed
                ELSE /\ dual_module_rtl' = execute_instructions(pushed, instructions)
                     /\ dual_last' =
                           [DualCall("add_dual_node", <<node>>, instructions, <<>>) EXCEPT
                              !.before = IF node.class = "Blossom"
                                         THEN <<dual_module_rtl.vertices>>
                                         ELSE <<>>]
                     /\ UNCHANGED dual_fatal
    /\ UNCHANGED expanded

RemoveBlossom(blossom_index) ==
    /\ ~dual_fatal
    /\ LET node == dual_module_rtl.nodes[blossom_index + 1]
           instructions == remove_blossom_instructions(dual_module_rtl.nodes, node.nodes_circle,
                                                       Len(node.nodes_circle))
       IN  IF node.class # "Blossom"
           THEN /\ dual_fatal' = TRUE
                /\ dual_last' = DualCall("remove_blossom", <<blossom_index>>, <<>>, <<>>)
                /\ UNCHANGED <<dual_module_rtl, expanded>>
           ELSE /\ dual_module_rtl' = execute_instructions(dual_module_rtl, instructions)
                /\ dual_last' =
                      [DualCall("remove_blossom", <<blossom_index>>, instructions, <<>>) EXCEPT
                         !.before = IF dual_last.op = "add_dual_node"
                                       /\ dual_last.args[1].index = blossom_index
                                    THEN dual_last.before
                                    ELSE <<>>]
                /\ expanded' = expanded \cup {blossom_index}
                /\ UNCHANGED dual_fatal

SetGrowState(node_index, grow_state) ==
    /\ ~dual_fatal
    /\ dual_module_rtl' = execute_instruction(dual_module_rtl, SetSpeed(node_index, grow_state))
    /\ dual_last' = DualCall("set_grow_state", <<node_index, grow_state>>,
                             <<SetSpeed(node_index, grow_state)>>, <<>>)
    /\ UNCHANGED <<dual_fatal, expanded>>

\* the Option<Response> unwrapped at the start of compute_maximum_update_length
\* is None whenever execute_instruction returns None
ComputeMaximumUpdateLength ==
    /\ ~dual_fatal
    /\ LET instruction == FindObstacle(0)
           return_value == execute_instruction_response(dual_module_rtl, instruction)
       IN  /\ dual_module_rtl' = execute_instruction(dual_module_rtl, instruction)
           /\ dual_fatal' = (return_value = <<>>)
           /\ dual_last' = DualCall("compute_maximum_update_length", <<>>,
                                    <<instruction>>, return_value)
    /\ UNCHANGED expanded

\* grow that lets a zero length through
grow_asserts_non_negative(length) == length >= 0

\* assert!(length > 0) of grow
grow_asserts(length) == length > 0

DualGrow(length) ==
    /\ ~dual_fatal
    /\ IF grow_asserts(length) /\ execute_instruction_asserts(dual_module_rtl, Grow(length))
       THEN /\ dual_module_rtl' = execute_instruction(dual_module_rtl, Grow(length))
            /\ dual_last' = DualCall("grow", <<length>>, <<Grow(length)>>, <<>>)
            /\ UNCHANGED dual_fatal
       ELSE /\ dual_fatal' = TRUE
            /\ dual_last' = DualCall("grow", <<length>>, <<>>, <<>>)
            /\ UNCHANGED dual_module_rtl
    /\ UNCHANGED expanded

(***************************************************************************)
(* Response::reduce applied to a pair of optional responses.               *)
(***************************************************************************)
NonZeroGrow(length) == [type |-> "NonZeroGrow", length |-> length, nodes |-> <<>>]
Conflict(node_1, node_2) == [type |-> "Conflict", length |-> 0, nodes |-> <<node_1, node_2>>]
ConflictVirtual(node) == [type |-> "ConflictVirtual", length |-> 0, nodes |-> <<node>>]
BlossomNeedExpand(blossom) ==
    [type |-> "BlossomNeedExpand", length |-> 0, nodes |-> <<blossom>>]

\* the optional responses reduce is applied to
Responses ==
    {<<>>}
      \cup {<<NonZeroGrow(length)>> : length \in 1 .. (MaxLength + 1)}
      \cup {<<Conflict(a, b)>> : a, b \in {0, 1}}
      \cup {<<ConflictVirtual(a)>> : a \in {0, 1}}
      \cup {<<BlossomNeedExpand(MaxNodes)>>}

ReduceInit ==
    /\ reduce_resp1 \in Responses
    /\ reduce_resp2 \in Responses
    /\ reduced = [done |-> FALSE, value |-> <<>>]

\* no reduction is in progress
ReduceIdle ==
    /\ reduce_resp1 = <<>>
    /\ reduce_resp2 = <<>>
    /\ reduced = [done |-> FALSE, value |-> <<>>]

Reduce ==
    /\ ~reduced.done
    /\ reduced' = [done |-> TRUE, value |-> Response_reduce(reduce_resp1, reduce_resp2)]
    /\ UNCHANGED <<reduce_resp1, reduce_resp2>>

(***************************************************************************)
(* The combinational edge (dual_module_comb_edge.rs).  get_response reads  *)
(* the edge's weight register and, from the driver, the instruction, the   *)
(* shadow node of each endpoint and the post-update grown of each          *)
(* endpoint.  Weight is a signed machine integer: the values drawn are far *)
(* from its range.                                                         *)
(***************************************************************************)
\* the node index the combinational module gives a virtual vertex
VIRTUAL_NODE_INDEX == (2 ^ 30 - 1) * 2
\* CompactWeight::MAX
CompactWeight_MAX == (2 ^ 30 - 1) * 2 + 1

CombNodes == {0, 1}

\* a shadow node: no node, the virtual node, or a node with its touching root
ShadowNodes ==
    {[node_index |-> NONE, root_index |-> NONE, speed |-> sp] : sp \in GrowStates}
    \cup {[node_index |-> VIRTUAL_NODE_INDEX, root_index |-> VIRTUAL_NODE_INDEX, speed |-> sp] :
            sp \in GrowStates}
    \cup {[node_index |-> n, root_index |-> r, speed |-> sp] :
            n \in CombNodes, r \in CombNodes, sp \in GrowStates}

Edge_new(edge_index, left_index, right_index, weight) ==
    [edge_index |-> edge_index, left_index |-> left_index, right_index |-> right_index,
     registers |-> [weight |-> weight]]

\* Weight::from(CompactGrowState)
Weight_from(speed) ==
    CASE speed = "Stay" -> 0
      [] speed = "Shrink" -> -1
      [] speed = "Grow" -> 1

get_remaining(e) == e.edge.registers.weight - e.left_grown - e.right_grown

joint_speed(e) == Weight_from(e.left_shadow.speed) + Weight_from(e.right_shadow.speed)

\* Option<NodeIndex>::and_then(node_mapper)
node_mapper(node_index) == IF node_index # VIRTUAL_NODE_INDEX THEN node_index ELSE NONE

CompactObstacle_None == [kind |-> "None"]
GrowLength(length) == [kind |-> "GrowLength", length |-> length]
CompactConflict(node_1, touch_1, vertex_1, node_2, touch_2, vertex_2) ==
    [kind |-> "Conflict", node_1 |-> node_1, touch_1 |-> touch_1, vertex_1 |-> vertex_1,
     node_2 |-> node_2, touch_2 |-> touch_2, vertex_2 |-> vertex_2]

\* get_response without its assert!
get_response_unchecked(e) == TRUE

\* the assert! of get_response holds, or is not reached
get_response_asserts(e) ==
    (/\ e.instruction.type = "FindObstacle"
     /\ e.left_shadow.node_index # e.right_shadow.node_index
     /\ joint_speed(e) > 0
     /\ get_remaining(e) # 0)
       => get_remaining(e) % joint_speed(e) = 0

\* get_response that names the right vertex first in a Conflict
get_response_swapped(e) ==
    IF e.instruction.type # "FindObstacle"
    THEN CompactObstacle_None
    ELSE IF e.left_shadow.node_index = e.right_shadow.node_index
    THEN GrowLength(CompactWeight_MAX)
    ELSE IF joint_speed(e) > 0
    THEN IF get_remaining(e) = 0
         THEN CompactConflict(node_mapper(e.left_shadow.node_index),
                              node_mapper(e.left_shadow.root_index),
                              e.edge.right_index,
                              node_mapper(e.right_shadow.node_index),
                              node_mapper(e.right_shadow.root_index),
                              e.edge.left_index)
         ELSE GrowLength(get_remaining(e) \div joint_speed(e))
    ELSE GrowLength(CompactWeight_MAX)

get_response(e) ==
    IF e.instruction.type # "FindObstacle"
    THEN CompactObstacle_None
    ELSE IF e.left_shadow.node_index = e.right_shadow.node_index
    THEN GrowLength(CompactWeight_MAX)
    ELSE IF joint_speed(e) > 0
    THEN IF get_remaining(e) = 0
         THEN CompactConflict(node_mapper(e.left_shadow.node_index),
                              node_mapper(e.left_shadow.root_index),
                              e.edge.left_index,
                              node_mapper(e.right_shadow.node_index),
                              node_mapper(e.right_shadow.root_index),
                              e.edge.right_index)
         ELSE GrowLength(get_remaining(e) \div joint_speed(e))
    ELSE GrowLength(CompactWeight_MAX)

\* the edges and driver signals get_response is evaluated on: an edge is
\* never grown beyond its weight
CombInputs ==
    {e \in [edge : {Edge_new(0, 0, 1, w) : w \in 0 .. (2 * MaxGrown)}
                    \cup {Edge_new(1, 1, 2, w) : w \in 0 .. (2 * MaxGrown)},
            instruction : {FindObstacle(0), Grow(MaxLength)},
            left_shadow : ShadowNodes,
            right_shadow : ShadowNodes,
            left_grown : 0 .. MaxGrown,
            right_grown : 0 .. MaxGrown] : get_remaining(e) >= 0}

CombInit ==
    /\ comb_edge \in CombInputs
    /\ comb_response = <<>>
    /\ comb_fatal = FALSE

\* no combinational edge is being evaluated
CombIdle ==
    /\ comb_edge = [edge |-> Edge_new(0, 0, 1, 0), instruction |-> Grow(MaxLength),
                    left_shadow |-> [node_index |-> NONE, root_index |-> NONE, speed |-> "Stay"],
                    right_shadow |-> [node_index |-> NONE, root_index |-> NONE, speed |-> "Stay"],
                    left_grown |-> 0, right_grown |-> 0]
    /\ comb_response = <<>>
    /\ comb_fatal = FALSE

\* referenced_signal!: the response is evaluated once
GetResponse ==
    /\ ~comb_fatal
    /\ comb_response = <<>>
    /\ IF get_response_asserts(comb_edge)
       THEN comb_response' = <<get_response(comb_edge)>> /\ UNCHANGED comb_fatal
       ELSE comb_fatal' = TRUE /\ UNCHANGED comb_response
    /\ UNCHANGED comb_edge

(***************************************************************************)
(* The do_pre_matching signal of a combinational edge.  The record holds   *)
(* the edge (default_weight, registers, signals), the use_pre_matching     *)
(* flag of the driver, the registers and the permit_pre_matching signal of *)
(* the two endpoint vertices, and the value get_do_pre_matching returned   *)
(* last.  A signal is cached in a RefCell<Option<bool>>: <<>> is None.     *)
(***************************************************************************)
EdgeCombSignals_new == [post_fetch_is_tight |-> <<>>, do_pre_matching |-> <<>>]

\* the registers and the permit signal of an endpoint vertex
PreMatchVertices ==
    [grown : 0 .. MaxGrown, node_index : {NONE} \cup CombNodes, permit_pre_matching : BOOLEAN]

\* the value returned and the signals after the call
get_post_fetch_is_tight(p) ==
    IF p.signals.post_fetch_is_tight # <<>>
    THEN [value |-> p.signals.post_fetch_is_tight[1], signals |-> p.signals]
    ELSE LET tight == p.left.grown + p.right.grown >= p.registers.weight
         IN  [value |-> tight, signals |-> [p.signals EXCEPT !.post_fetch_is_tight = <<tight>>]]

\* get_do_pre_matching without the early return on use_pre_matching
get_do_pre_matching_no_switch(p) ==
    IF p.signals.do_pre_matching # <<>>
    THEN [value |-> p.signals.do_pre_matching[1], signals |-> p.signals]
    ELSE IF p.left.permit_pre_matching /\ p.right.permit_pre_matching
    THEN LET tight == get_post_fetch_is_tight(p)
             value == tight.value /\ p.left.node_index # p.right.node_index
         IN  [value |-> value, signals |-> [tight.signals EXCEPT !.do_pre_matching = <<value>>]]
    ELSE [value |-> FALSE, signals |-> [p.signals EXCEPT !.do_pre_matching = <<FALSE>>]]

\* the value returned and the signals after the call: && evaluates the
\* tightness only when both vertices permit
get_do_pre_matching(p) ==
    IF ~p.use_pre_matching
    THEN [value |-> FALSE, signals |-> p.signals]
    ELSE IF p.signals.do_pre_matching # <<>>
    THEN [value |-> p.signals.do_pre_matching[1], signals |-> p.signals]
    ELSE IF p.left.permit_pre_matching /\ p.right.permit_pre_matching
    THEN LET tight == get_post_fetch_is_tight(p)
             value == tight.value /\ p.left.node_index # p.right.node_index
         IN  [value |-> value, signals |-> [tight.signals EXCEPT !.do_pre_matching = <<value>>]]
    ELSE [value |-> FALSE, signals |-> [p.signals EXCEPT !.do_pre_matching = <<FALSE>>]]

\* Edge::new and the driver state around it
PreMatchInputs ==
    {[default_weight |-> w, registers |-> [weight |-> w], signals |-> EdgeCombSignals_new,
      use_pre_matching |-> u, left |-> l, right |-> r, returned |-> <<>>] :
        w \in 0 .. (2 * MaxGrown), u \in BOOLEAN, l \in PreMatchVertices, r \in PreMatchVertices}

PreMatchInit == pre_matching \in PreMatchInputs

\* no do_pre_matching signal is being evaluated
PreMatchIdle ==
    pre_matching = [default_weight |-> 0, registers |-> [weight |-> 0],
                    signals |-> EdgeCombSignals_new, use_pre_matching |-> FALSE,
                    left |-> [grown |-> 0, node_index |-> NONE, permit_pre_matching |-> FALSE],
                    right |-> [grown |-> 0, node_index |-> NONE, permit_pre_matching |-> FALSE],
                    returned |-> <<>>]

GetDoPreMatching ==
    pre_matching' = [pre_matching EXCEPT !.signals = get_do_pre_matching(pre_matching).signals,
                                         !.returned = <<get_do_pre_matching(pre_matching).value>>]

GetPostFetchIsTight ==
    /\ pre_matching.signals.post_fetch_is_tight = <<>>
    /\ pre_matching' = [pre_matching EXCEPT
                          !.signals = get_post_fetch_is_tight(pre_matching).signals]

\* the registers of an endpoint vertex are written and the signals of the
\* edge are reset
RegisterUpdated ==
    \E vertex \in PreMatchVertices :
        \/ pre_matching' = [pre_matching EXCEPT !.left = vertex,
                                                !.signals = EdgeCombSignals_new,
                                                !.returned = <<>>]
        \/ pre_matching' = [pre_matching EXCEPT !.right = vertex,
                                                !.signals = EdgeCombSignals_new,
                                                !.returned = <<>>]

\* Edge::clear
EdgeClear ==
    /\ pre_matching.signals # EdgeCombSignals_new
    /\ pre_matching' = [pre_matching EXCEPT !.registers = [weight |-> pre_matching.default_weight],
                                            !.signals = EdgeCombSignals_new,
                                            !.returned = <<>>]

\* the solver is built with pre-matching: the flag of the driver is set
SetUsePreMatching ==
    /\ ~pre_matching.use_pre_matching
    /\ pre_matching' = [pre_matching EXCEPT !.use_pre_matching = TRUE]

\* the initial state: both modules constructed, no reduction in progress
Init == PrimalInit /\ DualInit /\ ReduceIdle /\ CombIdle /\ PreMatchIdle

(***************************************************************************)
(* SpecArena: the defect side of the arena under clear, check_node_index   *)
(* and virtual matches of present defect nodes.                            *)
(***************************************************************************)
ArenaNext ==
    \/ /\ Clear
       /\ UNCHANGED <<dual_vars, reduce_vars, comb_vars>>
    \/ /\ \E id \in NodeIds : CheckNodeIndex(id)
       /\ UNCHANGED <<dual_vars, reduce_vars, comb_vars>>
    \/ /\ \E d \in DefectIds, vv \in VirtualVertices :
             /\ present(primal_nodes, d)
             /\ TemporaryMatchVirtualVertex(d, d, DefectVertex(d), vv)
       /\ UNCHANGED <<dual_vars, reduce_vars, comb_vars>>

SpecArena == Init /\ [][ArenaNext]_vars

(***************************************************************************)
(* SpecBlossom: the blossom side of the arena under clear,                 *)
(* allocate_blossom, dispose_blossom and check_node_index, with defect 0   *)
(* matched to the boundary and the matching read out.                      *)
(***************************************************************************)
\* the nodes offered as a new blossom's first child
FirstChildInputs == {0, N}

BlossomNext ==
    \/ /\ Clear
       /\ UNCHANGED <<dual_vars, reduce_vars, comb_vars>>
    \/ /\ \E id \in {0} \cup BlossomIds : CheckNodeIndex(id)
       /\ UNCHANGED <<dual_vars, reduce_vars, comb_vars>>
    \/ /\ \E c \in FirstChildInputs : AllocateBlossom(c)
       /\ UNCHANGED <<dual_vars, reduce_vars, comb_vars>>
    \/ /\ \E b \in BlossomIds : DisposeBlossom(b)
       /\ UNCHANGED <<dual_vars, reduce_vars, comb_vars>>
    \/ /\ DisposeBlossom(0)
       /\ UNCHANGED <<dual_vars, reduce_vars, comb_vars>>
    \/ /\ present(primal_nodes, 0)
       /\ TemporaryMatchVirtualVertex(0, 0, DefectVertex(0), BoundaryOf(0))
       /\ UNCHANGED <<dual_vars, reduce_vars, comb_vars>>
    \/ /\ IterateIntermediateMatching
       /\ UNCHANGED <<dual_vars, reduce_vars, comb_vars>>
    \/ /\ IteratePerfectMatching
       /\ UNCHANGED <<dual_vars, reduce_vars, comb_vars>>

SpecBlossom == Init /\ [][BlossomNext]_vars

(***************************************************************************)
(* SpecTree: defects are reported, outer nodes are matched to each other   *)
(* or to a virtual vertex, free outer nodes are contracted into blossoms,  *)
(* and the matching is read out with the two iterators.                    *)
(***************************************************************************)
OuterNodes(self) ==
    {n \in NodeIds : present(self, n) /\ is_outer_blossom(get_node(self, n))}

FreeNodes(self) == {n \in OuterNodes(self) : is_free(get_node(self, n))}

\* the odd lengths a blossom cycle can have in an arena of N defects
CycleLengths == {k \in 3 .. N : k % 2 = 1}

\* the members of S in ascending order of ID
RECURSIVE Ascending(_)
Ascending(S) ==
    IF S = {}
    THEN <<>>
    ELSE LET m == CHOOSE x \in S : \A y \in S : x <= y
         IN  <<m>> \o Ascending(S \ {m})

\* the cycles of free outer nodes, each written in ascending order of ID
Cycles(self) ==
    {Ascending(S) : S \in {T \in SUBSET FreeNodes(self) : Cardinality(T) \in CycleLengths}}

\* for each member of the cycle, a defect of it and a defect of its successor
RECURSIVE CycleTouches(_, _, _)
CycleTouches(self, cycle, i) ==
    IF i > Len(cycle)
    THEN {<<>>}
    ELSE {<<p>> \o rest :
            p \in DefectsOf(self, cycle[i]) \X DefectsOf(self, cycle[(i % Len(cycle)) + 1]),
            rest \in CycleTouches(self, cycle, i + 1)}

TreeNext ==
    \/ /\ \E id \in DefectIds :
             /\ id \in {primal_nodes.count_defects, primal_nodes.count_defects + 1}
             /\ CheckNodeIndex(id)
       /\ UNCHANGED <<dual_vars, reduce_vars, comb_vars>>
    \/ /\ \E n1, n2 \in OuterNodes(primal_nodes) :
             /\ n1 < n2
             /\ \/ n1 \in FreeNodes(primal_nodes) /\ n2 \in FreeNodes(primal_nodes)
                \/ /\ primal_nodes.count_blossoms = 0
                   /\ n1 \in FreeNodes(primal_nodes) \/ n2 \in FreeNodes(primal_nodes)
             /\ \E t1 \in DefectsOf(primal_nodes, n1), t2 \in DefectsOf(primal_nodes, n2) :
                   TemporaryMatch(n1, n2, t1, t2, DefectVertex(t1), DefectVertex(t2))
       /\ UNCHANGED <<dual_vars, reduce_vars, comb_vars>>
    \/ /\ \E n \in FreeNodes(primal_nodes) :
             \E t \in DefectsOf(primal_nodes, n) :
                   TemporaryMatchVirtualVertex(n, t, DefectVertex(t), BoundaryOf(t))
       /\ UNCHANGED <<dual_vars, reduce_vars, comb_vars>>
    \/ /\ \E cycle \in Cycles(primal_nodes) :
             \E touches \in CycleTouches(primal_nodes, cycle, 1) :
                   BlossomForm(cycle, touches)
       /\ UNCHANGED <<dual_vars, reduce_vars, comb_vars>>
    \/ /\ IterateIntermediateMatching
       /\ UNCHANGED <<dual_vars, reduce_vars, comb_vars>>
    \/ /\ iterate_intermediate_matching_asserts(primal_nodes) /\ IteratePerfectMatching
       /\ UNCHANGED <<dual_vars, reduce_vars, comb_vars>>

SpecTree == Init /\ [][TreeNext]_vars

(***************************************************************************)
(* The matching operations alone, on the first defects of the arena: any   *)
(* present node is matched, re-matched and unmatched in any order, with    *)
(* each defect touching through its own vertex.  temporary_match_with_link *)
(* is given the link stored in a peer-matched node, all four fields of     *)
(* which are present.                                                      *)
(***************************************************************************)
MatchNodes == 0 .. 2

PeerLinks(self) ==
    {get_node(self, m).link : m \in {x \in MatchNodes : present(self, x)
                                       /\ get_node(self, x).link.peer_touch # NONE}}

MatchNext ==
    \/ /\ \E id \in MatchNodes : id = primal_nodes.count_defects /\ CheckNodeIndex(id)
       /\ UNCHANGED <<dual_vars, reduce_vars, comb_vars>>
    \/ /\ \E n1, n2 \in MatchNodes :
             /\ n1 # n2 /\ present(primal_nodes, n1) /\ present(primal_nodes, n2)
             /\ TemporaryMatch(n1, n2, n1, n2, DefectVertex(n1), DefectVertex(n2))
       /\ UNCHANGED <<dual_vars, reduce_vars, comb_vars>>
    \/ /\ \E n1, n2 \in MatchNodes :
             /\ n1 # n2 /\ present(primal_nodes, n1) /\ present(primal_nodes, n2)
             /\ \E link_1 \in PeerLinks(primal_nodes) :
                   TemporaryMatchWithLink(n1, link_1, n2)
       /\ UNCHANGED <<dual_vars, reduce_vars, comb_vars>>
    \/ /\ \E n \in MatchNodes :
             /\ present(primal_nodes, n)
             /\ TemporaryMatchVirtualVertex(n, n, DefectVertex(n), BoundaryOf(n))
       /\ UNCHANGED <<dual_vars, reduce_vars, comb_vars>>
    \/ /\ \E n \in MatchNodes : present(primal_nodes, n) /\ RemoveFromMatching(n)
       /\ UNCHANGED <<dual_vars, reduce_vars, comb_vars>>

SpecMatch == Init /\ [][MatchNext]_vars

(***************************************************************************)
(* SpecWalk: the walks over blossom members and parent chains.  Defects    *)
(* are reported, the first defects are matched and re-matched, free outer  *)
(* nodes are contracted into blossoms, a blossom is allocated around any   *)
(* of the first defects, and the members and the outer ancestors are read. *)
(***************************************************************************)
\* the least defect of a node, 0 for a blossom that holds none
FirstDefect(self, n) ==
    IF DefectsOf(self, n) = {}
    THEN 0
    ELSE CHOOSE d \in DefectsOf(self, n) : \A e \in DefectsOf(self, n) : d <= e

\* the present nodes inside a blossom
InnerNodes(self) ==
    {n \in NodeIds : present(self, n) /\ ~is_outer_blossom(get_node(self, n))}

\* the free outer nodes that hold a defect
Contractible(self) == {n \in FreeNodes(self) : DefectsOf(self, n) # {}}

\* the cycles made of the lowest such nodes, in ascending order of ID
LowestCycles(self) ==
    {Ascending(S) : S \in {T \in SUBSET Contractible(self) :
                              /\ Cardinality(T) \in CycleLengths
                              /\ \A x \in T, y \in Contractible(self) \ T : x < y}}

WalkNext ==
    \/ /\ Returned
       /\ primal_nodes.count_defects < N
       /\ CheckNodeIndex(primal_nodes.count_defects)
       /\ UNCHANGED <<dual_vars, reduce_vars, comb_vars>>
    \/ /\ Returned
       /\ primal_nodes.count_blossoms = 0
       /\ \E n1, n2 \in OuterNodes(primal_nodes) \cap MatchNodes :
             /\ n1 < n2
             /\ TemporaryMatch(n1, n2, n1, n2, DefectVertex(n1), DefectVertex(n2))
       /\ UNCHANGED <<dual_vars, reduce_vars, comb_vars>>
    \/ /\ Returned
       /\ \E cycle \in LowestCycles(primal_nodes) :
             BlossomForm(cycle, [i \in 1 .. Len(cycle) |->
                                   <<FirstDefect(primal_nodes, cycle[i]),
                                     FirstDefect(primal_nodes, cycle[(i % Len(cycle)) + 1])>>])
       /\ UNCHANGED <<dual_vars, reduce_vars, comb_vars>>
    \/ /\ Returned
       /\ primal_nodes.count_blossoms = 0
       /\ \E c \in OuterNodes(primal_nodes) \cap MatchNodes : AllocateBlossom(c)
       /\ UNCHANGED <<dual_vars, reduce_vars, comb_vars>>
    \/ /\ Returned
       /\ \E n1 \in InnerNodes(primal_nodes), n2 \in NodeIds :
             /\ present(primal_nodes, n2)
             /\ n1 # n2
             /\ \/ TemporaryMatch(n1, n2, FirstDefect(primal_nodes, n1),
                                  FirstDefect(primal_nodes, n2),
                                  DefectVertex(FirstDefect(primal_nodes, n1)),
                                  DefectVertex(FirstDefect(primal_nodes, n2)))
                \/ TemporaryMatch(n2, n1, FirstDefect(primal_nodes, n2),
                                  FirstDefect(primal_nodes, n1),
                                  DefectVertex(FirstDefect(primal_nodes, n2)),
                                  DefectVertex(FirstDefect(primal_nodes, n1)))
       /\ UNCHANGED <<dual_vars, reduce_vars, comb_vars>>
    \/ /\ Returned
       /\ \E n \in InnerNodes(primal_nodes) :
             TemporaryMatchVirtualVertex(n, FirstDefect(primal_nodes, n),
                                         DefectVertex(FirstDefect(primal_nodes, n)),
                                         BoundaryOf(FirstDefect(primal_nodes, n)))
       /\ UNCHANGED <<dual_vars, reduce_vars, comb_vars>>
    \/ /\ \E b \in {0} \cup BlossomIds : IterateBlossomChildren(b)
       /\ UNCHANGED <<dual_vars, reduce_vars, comb_vars>>
    \/ /\ \E id \in NodeIds : present(primal_nodes, id) /\ GetOuterBlossom(id)
       /\ UNCHANGED <<dual_vars, reduce_vars, comb_vars>>
    \/ /\ \E id \in NodeIds : present(primal_nodes, id) /\ GetSecondOuterBlossom(id)
       /\ UNCHANGED <<dual_vars, reduce_vars, comb_vars>>

SpecWalk == Init /\ [][WalkNext]_vars


(***************************************************************************)
(* SpecRTL: the dual module under the DualModuleImpl calls a primal        *)
(* module makes: defects are added on real vertices, blossoms are formed   *)
(* from three outer nodes, and only outer nodes are removed or given a     *)
(* grow state.                                                             *)
(***************************************************************************)
\* the dual nodes that have been added, were not expanded, and are not a
\* child of a blossom that is still there
DualOuterNodes ==
    {i \in 0 .. (Len(dual_module_rtl.nodes) - 1) :
        /\ i \notin expanded
        /\ \A b \in 0 .. (Len(dual_module_rtl.nodes) - 1) :
              (b \notin expanded /\ dual_module_rtl.nodes[b + 1].class = "Blossom")
                 => \A k \in DOMAIN dual_module_rtl.nodes[b + 1].nodes_circle :
                       dual_module_rtl.nodes[b + 1].nodes_circle[k] # i}

RealVertices == VertexIndices \ initializer.virtual_vertices

RTLNext ==
    \/ /\ DualClear
       /\ UNCHANGED <<primal_vars, reduce_vars, comb_vars, grow_log>>
    \/ /\ \E defect_index \in RealVertices :
             /\ Len(dual_module_rtl.nodes) < MaxNodes
             /\ AddDualNode(DefectNode(Len(dual_module_rtl.nodes), defect_index))
       /\ UNCHANGED <<primal_vars, reduce_vars, comb_vars, grow_log>>
    \/ /\ \E a, b, c \in DualOuterNodes :
             /\ a < b /\ b < c
             /\ Len(dual_module_rtl.nodes) < MaxNodes
             /\ AddDualNode(BlossomNode(Len(dual_module_rtl.nodes), <<a, b, c>>))
       /\ UNCHANGED <<primal_vars, reduce_vars, comb_vars, grow_log>>
    \/ /\ \E blossom_index \in DualOuterNodes :
             /\ dual_module_rtl.nodes[blossom_index + 1].class = "Blossom"
             /\ RemoveBlossom(blossom_index)
       /\ UNCHANGED <<primal_vars, reduce_vars, comb_vars, grow_log>>
    \/ /\ \E node_index \in DualOuterNodes, grow_state \in GrowStates :
             SetGrowState(node_index, grow_state)
       /\ UNCHANGED <<primal_vars, reduce_vars, comb_vars, grow_log>>
    \/ /\ ComputeMaximumUpdateLength
       /\ UNCHANGED <<primal_vars, reduce_vars, comb_vars, grow_log>>
    \/ /\ \E length \in (-1) .. MaxLength :
             /\ \A i \in VertexIndices : dual_module_rtl.vertices[i].grown + length <= MaxGrown
             /\ DualGrow(length)
       /\ UNCHANGED <<primal_vars, reduce_vars, comb_vars, grow_log>>

SpecRTL == Init /\ [][RTLNext]_vars

(***************************************************************************)
(* SpecSpeed: the dual module as in SpecRTL, where set_grow_state is also  *)
(* called on a node that is a member of a registered blossom.              *)
(***************************************************************************)
DualInnerNodes ==
    {i \in 0 .. (Len(dual_module_rtl.nodes) - 1) : i \notin DualOuterNodes /\ i \notin expanded}

SpeedNext ==
    \/ RTLNext
    \/ /\ \E node_index \in DualInnerNodes, grow_state \in GrowStates :
             SetGrowState(node_index, grow_state)
       /\ UNCHANGED <<primal_vars, reduce_vars, comb_vars, grow_log>>

SpecSpeed == Init /\ [][SpeedNext]_vars

(***************************************************************************)
(* SpecShrink: the caller of the test dual_module_rtl_basic_1.  Defects    *)
(* are loaded, the module grows by some lengths, every node is set to      *)
(* Shrink in the order of the nodes, and the module grows by the same      *)
(* lengths in reverse order.  grow_log.lengths holds the lengths still to  *)
(* be taken back.                                                          *)
(***************************************************************************)
MaxShrinkLength == 2
MaxShrinkGrown == 4

ShrinkNext ==
    \/ /\ grow_log.phase = "load"
       /\ \E defect_index \in RealVertices :
             /\ ~dual_module_rtl.vertices[defect_index].is_defect
             /\ AddDualNode(DefectNode(Len(dual_module_rtl.nodes), defect_index))
       /\ UNCHANGED <<primal_vars, reduce_vars, comb_vars, grow_log>>
    \/ /\ grow_log.phase \in {"load", "grow"}
       /\ dual_module_rtl.nodes # <<>>
       /\ \E length \in 1 .. MaxShrinkLength :
             /\ \A i \in VertexIndices : dual_module_rtl.vertices[i].grown + length <= MaxShrinkGrown
             /\ DualGrow(length)
             /\ grow_log' = [phase |-> "grow", lengths |-> Append(grow_log.lengths, length)]
       /\ UNCHANGED <<primal_vars, reduce_vars, comb_vars>>
    \/ /\ grow_log.phase = "grow"
       /\ SetGrowState(0, "Shrink")
       /\ grow_log' = [grow_log EXCEPT !.phase = IF Len(dual_module_rtl.nodes) = 1
                                                 THEN "shrink" ELSE "turn"]
       /\ UNCHANGED <<primal_vars, reduce_vars, comb_vars>>
    \/ /\ grow_log.phase = "turn"
       /\ dual_last.op = "set_grow_state"
       /\ SetGrowState(dual_last.args[1] + 1, "Shrink")
       /\ grow_log' = [grow_log EXCEPT
                          !.phase = IF dual_last.args[1] + 2 = Len(dual_module_rtl.nodes)
                                    THEN "shrink" ELSE "turn"]
       /\ UNCHANGED <<primal_vars, reduce_vars, comb_vars>>
    \/ /\ grow_log.phase = "shrink"
       /\ grow_log.lengths # <<>>
       /\ DualGrow(grow_log.lengths[Len(grow_log.lengths)])
       /\ grow_log' = [grow_log EXCEPT
                          !.lengths = SubSeq(@, 1, Len(grow_log.lengths) - 1)]
       /\ UNCHANGED <<primal_vars, reduce_vars, comb_vars>>

SpecShrink == Init /\ [][ShrinkNext]_vars

(***************************************************************************)
(* SpecReduce: Response::reduce applied once to every pair of arguments.   *)
(***************************************************************************)
ReduceNext == Reduce /\ UNCHANGED <<primal_vars, dual_vars, comb_vars>>

\* both modules constructed and a pair of arguments drawn
ReduceStart == PrimalInit /\ DualInit /\ ReduceInit /\ CombIdle /\ PreMatchIdle

SpecReduce == ReduceStart /\ [][ReduceNext]_vars

(***************************************************************************)
(* SpecCombEdge: get_response evaluated on every edge and driver signals   *)
(* drawn.                                                                  *)
(***************************************************************************)
CombNext == GetResponse /\ UNCHANGED <<primal_vars, dual_vars, reduce_vars, pre_matching>>

CombStart == PrimalInit /\ DualInit /\ ReduceIdle /\ CombInit /\ PreMatchIdle

SpecCombEdge == CombStart /\ [][CombNext]_vars

(***************************************************************************)
(* SpecPreMatch: the do_pre_matching signal of one edge under reads of the *)
(* signals, register updates, Edge::clear and the switch of the driver.    *)
(***************************************************************************)
PreMatchNext ==
    \/ /\ GetDoPreMatching
       /\ UNCHANGED <<primal_vars, dual_vars, reduce_vars, comb_edge, comb_response, comb_fatal>>
    \/ /\ GetPostFetchIsTight
       /\ UNCHANGED <<primal_vars, dual_vars, reduce_vars, comb_edge, comb_response, comb_fatal>>
    \/ /\ RegisterUpdated
       /\ UNCHANGED <<primal_vars, dual_vars, reduce_vars, comb_edge, comb_response, comb_fatal>>
    \/ /\ EdgeClear
       /\ UNCHANGED <<primal_vars, dual_vars, reduce_vars, comb_edge, comb_response, comb_fatal>>
    \/ /\ SetUsePreMatching
       /\ UNCHANGED <<primal_vars, dual_vars, reduce_vars, comb_edge, comb_response, comb_fatal>>

PreMatchStart == PrimalInit /\ DualInit /\ ReduceIdle /\ CombIdle /\ PreMatchInit

SpecPreMatch == PreMatchStart /\ [][PreMatchNext]_vars


(***************************************************************************)
(* Claims on the arena.                                                    *)
(***************************************************************************)
Max(a, b) == IF a >= b THEN a ELSE b

\* C9: check_node_index(id) with id < N leaves slot id present and
\* count_defects = max(previous count_defects, id + 1); a slot that was absent
\* holds the default node, a slot that was present keeps its fields, and a
\* second call on the same id changes nothing.
C9_CheckNodeIndex ==
    [][\A id \in DefectIds :
         CheckNodeIndex(id) =>
           /\ ~primal_fatal'
           /\ present(primal_nodes', id)
           /\ primal_nodes'.count_defects = Max(primal_nodes.count_defects, id + 1)
           /\ IF present(primal_nodes, id)
              THEN get_node(primal_nodes', id) = get_node(primal_nodes, id)
              ELSE get_node(primal_nodes', id) = PrimalNode_new
           /\ check_node_index(primal_nodes', id) = primal_nodes']_vars

\* C9 witness: check_node_index has been called on a defect that was already
\* present and virtually matched, below a higher defect, and kept its match.
C9_Witness ==
    /\ last.op = "check_node_index"
    /\ ~primal_fatal
    /\ last.args[1] < N
    /\ last.args[1] + 1 < primal_nodes.count_defects
    /\ get_node(primal_nodes, last.args[1]).link.peer_through # NONE
    /\ get_node(primal_nodes, last.args[1]).grow_state = "Stay"

\* C21: after clear() has_node(id) is false for every id in [0, 2N), whatever
\* the arena held, and an id becomes present again only by
\* check_node_index(id) or allocate_blossom.
C21_ClearAbsent ==
    [][/\ Clear => \A id \in NodeIds : ~has_node(primal_nodes', id)
       /\ \A id \in NodeIds :
             (~has_node(primal_nodes, id) /\ has_node(primal_nodes', id))
                => \/ CheckNodeIndex(id)
                   \/ \E c \in NodeIds : AllocateBlossom(c)]_vars

\* C22: check_node_index(id) with id >= count_defects leaves every slot in
\* [previous count_defects, id) absent, whatever it held before, and such a
\* slot becomes present only by check_node_index on that very id.
C22_SkippedDefectsAbsent ==
    [][/\ \A id \in DefectIds :
             (id >= primal_nodes.count_defects /\ CheckNodeIndex(id))
                => \A j \in primal_nodes.count_defects .. (id - 1) :
                      ~has_node(primal_nodes', j)
       /\ \A j \in DefectIds :
             (~has_node(primal_nodes, j) /\ has_node(primal_nodes', j))
                => CheckNodeIndex(j)]_vars

\* check_node_index skipped two defects above a matched one
C22_Witness ==
    /\ last.op = "check_node_index" /\ ~primal_fatal
    /\ primal_nodes.count_defects = last.args[1] + 1
    /\ last.args[1] >= 3
    /\ ~has_node(primal_nodes, last.args[1] - 1)
    /\ ~has_node(primal_nodes, last.args[1] - 2)
    /\ has_node(primal_nodes, 0)
    /\ get_node(primal_nodes, 0).link.touch # NONE

\* C10: allocate_blossom(c) returns N + count_blossoms, stores a default node
\* there, records first_blossom_child = c and increments count_blossoms; the
\* IDs returned between two clear() calls are all >= N and strictly
\* increasing, so none is returned twice, also after a dispose_blossom.
C10_AllocateBlossom ==
    [][\A c \in FirstChildInputs :
         (AllocateBlossom(c) /\ ~primal_fatal') =>
           /\ last'.result = N + primal_nodes.count_blossoms
           /\ last'.result >= N
           /\ primal_nodes'.buffer[last'.result] = <<PrimalNode_new>>
           /\ get_first_blossom_child(primal_nodes', last'.result) = c
           /\ primal_nodes'.count_blossoms = primal_nodes.count_blossoms + 1
           /\ \A earlier \in episode_ids : last'.result > earlier]_vars

\* C10 witness: a blossom has been allocated after an earlier blossom of the
\* same episode was disposed.
C10_Witness ==
    /\ last.op = "allocate_blossom"
    /\ ~primal_fatal
    /\ \E earlier \in episode_ids :
          earlier < last.result /\ ~has_node(primal_nodes, earlier)

\* C11: allocate_blossom called with count_blossoms = N halts fatally and
\* leaves the arena as it was: no buffer slot, no first_blossom_child entry
\* and no counter is written, and neither array gains an index.
C11_AllocateOverflow ==
    [][\A c \in FirstChildInputs :
          (primal_nodes.count_blossoms = N /\ AllocateBlossom(c))
             => /\ primal_fatal'
                /\ primal_nodes' = primal_nodes
                /\ DOMAIN primal_nodes'.buffer = NodeIds
                /\ DOMAIN primal_nodes'.first_blossom_child = 0 .. (N - 1)]_vars

\* C11 witness: allocate_blossom has halted on an arena with N blossoms.
C11_Witness ==
    /\ primal_fatal
    /\ last.op = "allocate_blossom"
    /\ primal_nodes.count_blossoms = N

\* C12: clear() sets both counters to 0 whatever the arena holds, a second
\* clear() changes nothing, and iterate_intermediate_matching and
\* iterate_perfect_matching called right after clear() return without a
\* single callback.
C12_ClearIdempotent ==
    [][/\ Clear
          => /\ ~primal_fatal'
             /\ primal_nodes'.count_defects = 0
             /\ primal_nodes'.count_blossoms = 0
             /\ clear(primal_nodes') = primal_nodes'
       /\ (last.op = "clear" /\ (IterateIntermediateMatching \/ IteratePerfectMatching))
          => /\ ~primal_fatal'
             /\ last'.emitted = <<>>]_vars

\* C12 witness: the matching has been read out right after a clear() of an
\* arena that held a matched defect and a blossom, whose slots still hold
\* their content.
C12_Witness ==
    /\ last.op \in {"iterate_intermediate_matching", "iterate_perfect_matching"}
    /\ ~primal_fatal
    /\ last.emitted = <<>>
    /\ primal_nodes.count_defects = 0
    /\ primal_nodes.count_blossoms = 0
    /\ has_node(primal_nodes, 0)
    /\ get_node(primal_nodes, 0).link.peer_through # NONE
    /\ has_node(primal_nodes, N)

\* the arguments of the last temporary_match
MatchedLink(touch, through, peer_touch, peer_through) ==
    [touch |-> touch, through |-> through,
     peer_touch |-> peer_touch, peer_through |-> peer_through]

\* C13: after temporary_match(n1, n2, t1, t2, v1, v2) on two outer nodes both
\* have grow_state Stay, no parent and no first child, each is the sibling
\* of the other, n1.link = (t1, v1, t2, v2) and n2.link = (t2, v2, t1, v1),
\* and both report is_matched.
C13_TemporaryMatch ==
    (last.op = "temporary_match" /\ ~primal_fatal /\ last.args[1] # last.args[2])
       => LET a == last.args
              node_1 == get_node(primal_nodes, a[1])
              node_2 == get_node(primal_nodes, a[2])
          IN  /\ node_1 = [grow_state |-> "Stay", parent |-> NONE, first_child |-> NONE,
                           sibling |-> a[2],
                           link |-> MatchedLink(a[3], a[5], a[4], a[6])]
              /\ node_2 = [grow_state |-> "Stay", parent |-> NONE, first_child |-> NONE,
                           sibling |-> a[1],
                           link |-> MatchedLink(a[4], a[6], a[3], a[5])]
              /\ is_matched(node_1) /\ is_matched(node_2)

\* two outer nodes were matched, one of them a blossom touched through a member
C13_Witness ==
    /\ last.op = "temporary_match" /\ ~primal_fatal
    /\ last.args[1] # last.args[2]
    /\ last.args[2] >= N /\ last.args[4] < N
    /\ get_node(primal_nodes, last.args[2]).sibling = last.args[1]

\* C14: after temporary_match_virtual_vertex(n, t, v, vv) on an outer node
\* the node has grow_state Stay, no parent, no first child and no sibling,
\* link = (t, v, none, vv), reports is_matched, and get_matched is
\* VirtualVertex(vv).
C14_TemporaryMatchVirtualVertex ==
    (last.op = "temporary_match_virtual_vertex" /\ ~primal_fatal)
       => LET a == last.args
              node == get_node(primal_nodes, a[1])
          IN  /\ node = [grow_state |-> "Stay", parent |-> NONE, first_child |-> NONE,
                         sibling |-> NONE,
                         link |-> MatchedLink(a[2], a[3], NONE, a[4])]
              /\ is_matched(node)
              /\ get_matched(node) = [kind |-> "VirtualVertex", target |-> a[4]]

\* a node was matched to a virtual vertex while its former peer still names it
C14_Witness ==
    /\ last.op = "temporary_match_virtual_vertex" /\ ~primal_fatal
    /\ \E m \in MatchNodes :
          /\ present(primal_nodes, m) /\ m # last.args[1]
          /\ get_node(primal_nodes, m).sibling = last.args[1]

\* C15: after any sequence of temporary_match, temporary_match_with_link,
\* temporary_match_virtual_vertex and remove_from_matching on outer nodes,
\* every outer node that reports is_matched has a sibling and a touch (peer
\* match), or no sibling and a peer_through (virtual match).
C15_MatchedShape ==
    \A n \in MatchNodes :
       (present(primal_nodes, n) /\ is_outer_blossom(get_node(primal_nodes, n))
          /\ is_matched(get_node(primal_nodes, n)))
       => LET node == get_node(primal_nodes, n)
          IN  \/ node.sibling # NONE /\ node.link.touch # NONE
              \/ node.sibling = NONE /\ node.link.peer_through # NONE

\* a node was unmatched and is free, its former peer is still matched to it,
\* and a third node is matched to a virtual vertex
C15_Witness ==
    /\ last.op = "remove_from_matching" /\ ~primal_fatal
    /\ is_free(get_node(primal_nodes, last.args[1]))
    /\ \E m, v \in MatchNodes :
          /\ present(primal_nodes, m) /\ present(primal_nodes, v)
          /\ get_node(primal_nodes, m).sibling = last.args[1]
          /\ is_matched(get_node(primal_nodes, m))
          /\ get_matched(get_node(primal_nodes, v)).kind = "VirtualVertex"
          /\ is_matched(get_node(primal_nodes, v))

\* C20: dispose_blossom(b) on a present blossom makes slot b absent and
\* clears its first_blossom_child entry, and leaves count_blossoms,
\* count_defects and every other slot and entry unchanged.
C20_DisposeFrame ==
    [][\A b \in BlossomIds :
         (present(primal_nodes, b) /\ DisposeBlossom(b))
            => /\ ~primal_fatal'
               /\ primal_nodes'.buffer[b] = <<>>
               /\ primal_nodes'.first_blossom_child[b - N] = NONE
               /\ primal_nodes'.count_blossoms = primal_nodes.count_blossoms
               /\ primal_nodes'.count_defects = primal_nodes.count_defects
               /\ \A id \in NodeIds \ {b} :
                     primal_nodes'.buffer[id] = primal_nodes.buffer[id]
               /\ \A k \in (0 .. (N - 1)) \ {b - N} :
                     primal_nodes'.first_blossom_child[k]
                        = primal_nodes.first_blossom_child[k]]_vars

\* a blossom was disposed while a matched defect and a later blossom with a
\* first child stay in the arena
C20_Witness ==
    /\ last.op = "dispose_blossom" /\ ~primal_fatal
    /\ ~has_node(primal_nodes, last.args[1])
    /\ last.args[1] - N < primal_nodes.count_blossoms
    /\ present(primal_nodes, 0)
    /\ get_node(primal_nodes, 0).link.touch # NONE
    /\ \E other \in BlossomIds :
          /\ other > last.args[1] /\ present(primal_nodes, other)
          /\ get_first_blossom_child(primal_nodes, other) = 0

(***************************************************************************)
(* Claims on the combinational edge.                                       *)
(***************************************************************************)
\* get_response has been evaluated on comb_edge
Evaluated == comb_response # <<>> \/ comb_fatal

\* both endpoints belong to the same node, or the edge is not being closed
NoObstacle ==
    \/ comb_edge.left_shadow.node_index = comb_edge.right_shadow.node_index
    \/ joint_speed(comb_edge) <= 0

\* a shadow index as a Conflict reports it: none for no node and for the virtual node
Reported(index) == IF index \in CombNodes THEN index ELSE NONE

ReportsConflict ==
    comb_response =
       <<[kind |-> "Conflict",
          node_1 |-> Reported(comb_edge.left_shadow.node_index),
          touch_1 |-> Reported(comb_edge.left_shadow.root_index),
          vertex_1 |-> comb_edge.edge.left_index,
          node_2 |-> Reported(comb_edge.right_shadow.node_index),
          touch_2 |-> Reported(comb_edge.right_shadow.root_index),
          vertex_2 |-> comb_edge.edge.right_index]>>

Remaining ==
    comb_edge.edge.registers.weight - comb_edge.left_grown - comb_edge.right_grown

Divides == Remaining % joint_speed(comb_edge) = 0

\* C16, as stated: for FindObstacle an edge reports GrowLength(MAX) when the
\* endpoints' shadow node_index are equal or the joint speed is <= 0;
\* otherwise a Conflict naming left and right exactly when remaining = 0 (a
\* virtual side with node none), and GrowLength(remaining / joint_speed)
\* when remaining is not 0.
C16_AsStated ==
    (comb_edge.instruction.type = "FindObstacle" /\ Evaluated)
       => IF NoObstacle
          THEN comb_response = <<[kind |-> "GrowLength", length |-> CompactWeight_MAX]>>
          ELSE IF Remaining = 0
          THEN ReportsConflict
          ELSE comb_response =
                 <<[kind |-> "GrowLength",
                    length |-> Remaining \div joint_speed(comb_edge)]>>

\* C16, amended: as stated, but GrowLength(remaining / joint_speed) is
\* reported when remaining is not 0 and the joint speed divides it.
C16_FindObstacleResponse ==
    (comb_edge.instruction.type = "FindObstacle" /\ Evaluated)
       => IF NoObstacle
          THEN comb_response = <<[kind |-> "GrowLength", length |-> CompactWeight_MAX]>>
          ELSE IF Remaining = 0
          THEN ReportsConflict
          ELSE Divides =>
                 comb_response =
                    <<[kind |-> "GrowLength",
                       length |-> Remaining \div joint_speed(comb_edge)]>>

\* two growing endpoints of different nodes, an even non-zero remaining
\* weight, and half of it reported
C16_Witness ==
    /\ comb_edge.instruction.type = "FindObstacle"
    /\ ~NoObstacle /\ joint_speed(comb_edge) = 2 /\ Remaining = 2
    /\ comb_edge.left_shadow.node_index = VIRTUAL_NODE_INDEX
    /\ comb_response = <<[kind |-> "GrowLength", length |-> 1]>>

\* C17: when the joint speed is positive and does not divide the non-zero
\* remaining weight, the FindObstacle response is a fatal assertion
\* failure; no rounded-down GrowLength is returned.
C17_NonDivisibleFatal ==
    (/\ comb_edge.instruction.type = "FindObstacle" /\ Evaluated
     /\ ~NoObstacle /\ Remaining # 0 /\ ~Divides)
       => comb_fatal /\ comb_response = <<>>

\* both endpoints growing, an odd remaining weight, and the assertion failed
C17_Witness ==
    /\ comb_edge.instruction.type = "FindObstacle"
    /\ comb_edge.left_shadow.speed = "Grow" /\ comb_edge.right_shadow.speed = "Grow"
    /\ comb_edge.left_shadow.node_index # comb_edge.right_shadow.node_index
    /\ Remaining % 2 = 1
    /\ comb_fatal

(***************************************************************************)
(* Claims on the stages of an instruction.  Stages holds, for each         *)
(* instruction of the call being made, the registers before it, after its  *)
(* execute stage and after its update stage.                               *)
(***************************************************************************)
Stages ==
    {[instruction |-> dual_last'.instructions[k],
      before |-> execute_instructions(dual_module_rtl,
                                      SubSeq(dual_last'.instructions, 1, k - 1)),
      executed |-> pipeline_staged(
                      execute_instructions(dual_module_rtl,
                                           SubSeq(dual_last'.instructions, 1, k - 1)),
                      dual_last'.instructions[k], "execute_stage",
                      iter(VertexIndices), iter(EdgeIndices)),
      after |-> execute_instructions(dual_module_rtl,
                                     SubSeq(dual_last'.instructions, 1, k))] :
        k \in DOMAIN dual_last'.instructions}

\* the other end of the k-th incident edge of vertex i
NeighbourAt(dm, i, k) ==
    IF dm.edges[dm.vertices[i].edge_indices[k]].left_index = i
    THEN dm.edges[dm.vertices[i].edge_indices[k]].right_index
    ELSE dm.edges[dm.vertices[i].edge_indices[k]].left_index

\* the growth of the k-th incident edge of vertex i on its neighbour's side
NeighbourSideGrowth(dm, i, k) ==
    IF dm.edges[dm.vertices[i].edge_indices[k]].left_index = i
    THEN dm.edges[dm.vertices[i].edge_indices[k]].right_growth
    ELSE dm.edges[dm.vertices[i].edge_indices[k]].left_growth

\* the positions, in adjacency order, of the neighbours that propagate to i
Propagating(dm, i) ==
    {k \in DOMAIN dm.vertices[i].edge_indices :
        /\ NeighbourSideGrowth(dm, i, k) = dm.edges[dm.vertices[i].edge_indices[k]].weight
        /\ dm.vertices[NeighbourAt(dm, i, k)].speed = "Grow"}

\* C23: in the update stage of every instruction a vertex that is a defect,
\* is virtual or has grown > 0 is unchanged; any other vertex takes
\* node_index, root_index and speed from the first neighbour in adjacency
\* order whose side of the shared edge has grown to the weight and whose
\* speed is Grow, and is unowned with speed Stay when there is none.
C23_UpdateStage ==
    [][\A s \in Stages : \A i \in VertexIndices :
          LET v == s.executed.vertices[i]
              w == s.after.vertices[i]
              first == CHOOSE k \in Propagating(s.executed, i) :
                          \A other \in Propagating(s.executed, i) : k <= other
              peer == s.executed.vertices[NeighbourAt(s.executed, i, first)]
          IN  IF v.is_defect \/ v.is_virtual \/ v.grown > 0
              THEN w = v
              ELSE IF Propagating(s.executed, i) # {}
              THEN w = [v EXCEPT !.node_index = peer.node_index,
                                 !.root_index = peer.root_index,
                                 !.speed = peer.speed]
              ELSE w = [v EXCEPT !.node_index = NONE, !.root_index = NONE,
                                 !.speed = "Stay"]]_vars

\* a vertex that is no defect and has not grown is owned by a node, next to
\* a vertex that has grown and kept its owner
C23_Witness ==
    /\ ~dual_fatal /\ dual_last.instructions # <<>>
    /\ \E i \in RealVertices :
          /\ ~dual_module_rtl.vertices[i].is_defect
          /\ dual_module_rtl.vertices[i].grown = 0
          /\ dual_module_rtl.vertices[i].node_index # NONE
    /\ \E i \in RealVertices :
          /\ dual_module_rtl.vertices[i].grown > 0
          /\ dual_module_rtl.vertices[i].node_index # NONE

\* C24: on Grow(length) an edge whose endpoints have different node_index
\* (one may be unowned) adds left speed x length to left_growth and right
\* speed x length to right_growth, with the speeds and owners held before the
\* instruction; an edge whose endpoints have equal node_index keeps its
\* growth; every other instruction leaves both growths unchanged.
C24_EdgeGrowth ==
    [][\A s \in Stages : \A e \in EdgeIndices :
          LET edge == s.before.edges[e]
              left_vertex == s.before.vertices[edge.left_index]
              right_vertex == s.before.vertices[edge.right_index]
          IN  IF s.instruction.type = "Grow"
                   /\ left_vertex.node_index # right_vertex.node_index
              THEN /\ s.after.edges[e].left_growth
                        = edge.left_growth + get_speed(left_vertex) * s.instruction.length
                   /\ s.after.edges[e].right_growth
                        = edge.right_growth + get_speed(right_vertex) * s.instruction.length
              ELSE /\ s.after.edges[e].left_growth = edge.left_growth
                   /\ s.after.edges[e].right_growth = edge.right_growth]_vars

\* a grow has run with one edge inside a growing node and another edge
\* grown from one side towards an unowned vertex
C24_Witness ==
    /\ ~dual_fatal /\ dual_last.op = "grow"
    /\ \E e \in EdgeIndices :
          LET edge == dual_module_rtl.edges[e]
          IN  /\ dual_module_rtl.vertices[edge.left_index].node_index
                    = dual_module_rtl.vertices[edge.right_index].node_index
              /\ dual_module_rtl.vertices[edge.left_index].node_index # NONE
              /\ dual_module_rtl.vertices[edge.left_index].speed = "Grow"
    /\ \E e \in EdgeIndices :
          LET edge == dual_module_rtl.edges[e]
          IN  /\ edge.left_growth + edge.right_growth > 0
              /\ \/ dual_module_rtl.vertices[edge.left_index].node_index = NONE
                 \/ dual_module_rtl.vertices[edge.right_index].node_index = NONE

\* C25: in the execute stage of SetBlossom{node, blossom} exactly the
\* vertices whose node_index or root_index is node get node_index = blossom
\* and speed Grow, with root_index and grown as before; no other vertex and
\* no edge is changed by that stage.
C25_SetBlossomStage ==
    [][\A s \in Stages :
          s.instruction.type = "SetBlossom"
             => /\ \A i \in VertexIndices :
                      LET v == s.before.vertices[i]
                      IN  IF v.node_index = s.instruction.node
                               \/ v.root_index = s.instruction.node
                          THEN s.executed.vertices[i]
                                  = [v EXCEPT !.node_index = s.instruction.blossom,
                                              !.speed = "Grow"]
                          ELSE s.executed.vertices[i] = v
                /\ s.executed.edges = s.before.edges]_vars

\* a blossom was registered over members that have grown, one of them
\* shrinking before, next to vertices of no member
C25_Witness ==
    /\ ~dual_fatal /\ dual_last.op = "add_dual_node"
    /\ dual_last.args[1].class = "Blossom"
    /\ \E i \in VertexIndices :
          /\ dual_module_rtl.vertices[i].node_index = dual_last.args[1].index
          /\ dual_module_rtl.vertices[i].grown > 0
          /\ dual_last.before[1][i].speed = "Shrink"
    /\ \E i \in VertexIndices :
          dual_module_rtl.vertices[i].node_index # dual_last.args[1].index

\* C26: in the execute stage of SetSpeed{node, speed} exactly the vertices
\* whose node_index is node take the speed (a vertex with only root_index =
\* node, owned by another outer node, does not); no grown, node_index or
\* root_index of a vertex and no edge changes in that stage.
C26_SetSpeedStage ==
    [][\A s \in Stages :
          s.instruction.type = "SetSpeed"
             => /\ \A i \in VertexIndices :
                      LET v == s.before.vertices[i]
                      IN  IF v.node_index = s.instruction.node
                          THEN s.executed.vertices[i]
                                  = [v EXCEPT !.speed = s.instruction.speed]
                          ELSE s.executed.vertices[i] = v
                /\ s.executed.edges = s.before.edges]_vars

\* set_grow_state(Stay) was called on a member of a blossom whose vertices
\* keep growing
C26_Witness ==
    /\ ~dual_fatal /\ dual_last.op = "set_grow_state"
    /\ dual_last.args[2] = "Stay"
    /\ \E i \in VertexIndices :
          /\ dual_module_rtl.vertices[i].root_index = dual_last.args[1]
          /\ dual_module_rtl.vertices[i].node_index # dual_last.args[1]
          /\ dual_module_rtl.vertices[i].speed = "Grow"

\* C27: AddDefectVertex{vertex, node} marks exactly that vertex is_defect
\* with speed Grow and node_index = root_index = node, leaving its grown and
\* every other vertex's defect flag unchanged; add_dual_node of a defect
\* vertex that is already marked is_defect halts fatally before issuing the
\* instruction.
C27_AddDefectVertex ==
    [][/\ \A s \in Stages :
             s.instruction.type = "AddDefectVertex"
                => \A i \in VertexIndices :
                      LET v == s.before.vertices[i]
                      IN  IF i = s.instruction.vertex
                          THEN s.executed.vertices[i]
                                  = [v EXCEPT !.is_defect = TRUE, !.speed = "Grow",
                                              !.node_index = s.instruction.node,
                                              !.root_index = s.instruction.node]
                          ELSE s.executed.vertices[i].is_defect = v.is_defect
       /\ \A defect_index \in RealVertices :
             (/\ dual_module_rtl.vertices[defect_index].is_defect
              /\ AddDualNode(DefectNode(Len(dual_module_rtl.nodes), defect_index)))
                => /\ dual_fatal'
                   /\ dual_last'.instructions = <<>>
                   /\ dual_module_rtl'.vertices = dual_module_rtl.vertices
                   /\ dual_module_rtl'.edges = dual_module_rtl.edges]_vars

\* a defect was added on a vertex a neighbour's region had reached and
\* grown into
C27_Witness ==
    /\ ~dual_fatal /\ dual_last.op = "add_dual_node"
    /\ dual_last.args[1].class = "DefectVertex"
    /\ dual_module_rtl.vertices[dual_last.args[1].defect_index].grown > 0
    /\ dual_module_rtl.vertices[dual_last.args[1].defect_index].node_index
          = dual_last.args[1].index

\* C28: grow(length) with length <= 0 halts fatally before any instruction
\* executes: no vertex and no edge changes, and no zero or negative growth
\* reaches the pipeline.
C28_GrowRejected ==
    [][\A length \in (-1) .. 0 :
          DualGrow(length)
             => /\ dual_fatal'
                /\ dual_last'.instructions = <<>>
                /\ dual_module_rtl' = dual_module_rtl]_vars

\* a grow by a negative length has halted on shrinking vertices that had grown
C28_Witness ==
    /\ dual_fatal /\ dual_last.op = "grow" /\ dual_last.args[1] < 0
    /\ \E i \in VertexIndices :
          /\ dual_module_rtl.vertices[i].grown > 0
          /\ dual_module_rtl.vertices[i].speed = "Shrink"

\* C29: from loaded defects, after a Grow sequence that raises no assertion,
\* setting every node to Shrink and growing by the same lengths in reverse
\* order raises no assertion and ends with every vertex at grown = 0, every
\* edge at left_growth = right_growth = 0 and every non-defect vertex
\* unowned with speed Stay.
C29_GrowShrinkReturns ==
    grow_log.phase = "shrink"
       => /\ ~dual_fatal
          /\ grow_log.lengths = <<>>
                => /\ \A i \in VertexIndices :
                         /\ dual_module_rtl.vertices[i].grown = 0
                         /\ ~dual_module_rtl.vertices[i].is_defect
                               => /\ dual_module_rtl.vertices[i].node_index = NONE
                                  /\ dual_module_rtl.vertices[i].root_index = NONE
                                  /\ dual_module_rtl.vertices[i].speed = "Stay"
                   /\ \A e \in EdgeIndices :
                         /\ dual_module_rtl.edges[e].left_growth = 0
                         /\ dual_module_rtl.edges[e].right_growth = 0

\* at least two defects were loaded and grown, every node was set to Shrink
\* and every length grown has been taken back
C29_Witness ==
    /\ grow_log = [phase |-> "shrink", lengths |-> <<>>]
    /\ ~dual_fatal
    /\ Len(dual_module_rtl.nodes) >= 2
    /\ dual_last.op = "grow"
    /\ \E i \in RealVertices : ~dual_module_rtl.vertices[i].is_defect

\* C30: get_do_pre_matching returns true only if pre-matching is enabled,
\* both endpoint vertices permit pre-matching, the grown registers of the
\* endpoints add up to at least the weight and the node_index registers of
\* the endpoints differ; with use_pre_matching false it never returns true.
C30_DoPreMatching ==
    /\ pre_matching.returned = <<TRUE>>
          => /\ pre_matching.use_pre_matching
             /\ pre_matching.left.permit_pre_matching
             /\ pre_matching.right.permit_pre_matching
             /\ pre_matching.left.grown + pre_matching.right.grown
                   >= pre_matching.registers.weight
             /\ pre_matching.left.node_index # pre_matching.right.node_index
    /\ (~pre_matching.use_pre_matching /\ pre_matching.returned # <<>>)
          => pre_matching.returned = <<FALSE>>

\* the signal has been read as true on an edge of positive weight between
\* two vertices of different nodes
C30_Witness ==
    /\ pre_matching.returned = <<TRUE>>
    /\ pre_matching.signals.do_pre_matching = <<TRUE>>
    /\ pre_matching.registers.weight > 0
    /\ pre_matching.left.node_index # NONE
    /\ pre_matching.right.node_index # NONE

\* Edge::get_post_fetch_is_tight of the combinational edge, on the grown
\* registers of the two endpoint vertices
PostFetchIsTight(dm, e) ==
    dm.vertices[dm.edges[e].left_index].grown + dm.vertices[dm.edges[e].right_index].grown
       >= dm.edges[e].weight

\* C37, as stated: after every instruction of a run in which no assertion fails, on
\* every edge whose endpoints have different owners, is_tight of the RTL
\* edge holds exactly when the grown values of the two endpoint vertices
\* add up to at least the weight.
C37_AsStated ==
    ~dual_fatal
       => \A e \in EdgeIndices :
             dual_module_rtl.vertices[dual_module_rtl.edges[e].left_index].node_index
                # dual_module_rtl.vertices[dual_module_rtl.edges[e].right_index].node_index
                => (is_tight(dual_module_rtl.edges[e]) <=> PostFetchIsTight(dual_module_rtl, e))

\* C37, amended: the two notions of tightness agree on every edge whose
\* endpoints have different owners after every instruction of a run in
\* which no assertion fails and no blossom has been removed.
C37_TightnessAgrees ==
    (~dual_fatal /\ expanded = {})
       => \A e \in EdgeIndices :
             dual_module_rtl.vertices[dual_module_rtl.edges[e].left_index].node_index
                # dual_module_rtl.vertices[dual_module_rtl.edges[e].right_index].node_index
                => (is_tight(dual_module_rtl.edges[e]) <=> PostFetchIsTight(dual_module_rtl, e))

\* an edge between a vertex of a grown blossom and a vertex outside it is
\* tight
C37_Witness ==
    /\ ~dual_fatal
    /\ expanded = {}
    /\ \E i \in 1 .. Len(dual_module_rtl.nodes) : dual_module_rtl.nodes[i].class = "Blossom"
    /\ \E e \in EdgeIndices :
          /\ dual_module_rtl.edges[e].weight > 0
          /\ dual_module_rtl.vertices[dual_module_rtl.edges[e].left_index].node_index
                # dual_module_rtl.vertices[dual_module_rtl.edges[e].right_index].node_index
          /\ is_tight(dual_module_rtl.edges[e])
          /\ PostFetchIsTight(dual_module_rtl, e)

\* C39: after every instruction a non-virtual vertex with node_index none
\* has root_index none, speed Stay and grown = 0, and an instruction changes
\* the grown of owned vertices only.
C39_UnownedIdle ==
    [][\A st \in Stages : \A i \in RealVertices :
          /\ st.after.vertices[i].node_index = NONE
                => /\ st.after.vertices[i].root_index = NONE
                   /\ st.after.vertices[i].speed = "Stay"
                   /\ st.after.vertices[i].grown = 0
          /\ st.after.vertices[i].grown # st.before.vertices[i].grown
                => st.before.vertices[i].node_index # NONE]_vars

\* a defect vertex whose edge to a neighbour is tight has been turned to
\* Shrink, and the neighbour, which never grew, is released by the update
\* stage of the SetSpeed instruction
C39_Witness ==
    /\ ~dual_fatal
    /\ dual_last.op = "set_grow_state"
    /\ \E e \in EdgeIndices :
          \E i \in RealVertices, j \in RealVertices :
             /\ {i, j} = {dual_module_rtl.edges[e].left_index,
                           dual_module_rtl.edges[e].right_index}
             /\ i # j
             /\ dual_module_rtl.vertices[j].is_defect
             /\ dual_module_rtl.vertices[j].speed = "Shrink"
             /\ is_tight_from(dual_module_rtl.edges[e], j)
             /\ ~dual_module_rtl.vertices[i].is_defect
             /\ dual_module_rtl.vertices[i].node_index = NONE

\* C40: a virtual vertex that no AddDefectVertex has named keeps grown = 0,
\* speed Stay, node_index none and root_index none through every instruction,
\* also when a growing neighbour has fully grown the edge between them.
C40_VirtualIdle ==
    [][\A st \in Stages : \A i \in initializer.virtual_vertices :
          ~st.after.vertices[i].is_defect
             => /\ st.after.vertices[i].grown = 0
                /\ st.after.vertices[i].speed = "Stay"
                /\ st.after.vertices[i].node_index = NONE
                /\ st.after.vertices[i].root_index = NONE]_vars

\* a growing defect vertex has fully grown its edge to a virtual vertex
C40_Witness ==
    /\ ~dual_fatal
    /\ dual_last.op = "grow"
    /\ \E e \in EdgeIndices :
          \E i \in initializer.virtual_vertices, j \in RealVertices :
             /\ {i, j} = {dual_module_rtl.edges[e].left_index,
                           dual_module_rtl.edges[e].right_index}
             /\ dual_module_rtl.edges[e].weight > 0
             /\ is_tight_from(dual_module_rtl.edges[e], j)
             /\ dual_module_rtl.vertices[j].speed = "Grow"
             /\ dual_module_rtl.vertices[j].node_index # NONE
             /\ ~dual_module_rtl.vertices[i].is_defect
             /\ dual_module_rtl.vertices[i].node_index = NONE

(***************************************************************************)
(* Claims on blossoms in the dual module.                                  *)
(***************************************************************************)
\* a blossom was registered and removed by the next call
RoundTrip ==
    dual_last.op = "remove_blossom" /\ dual_last.before # <<>> /\ ~dual_fatal

\* the vertices that belonged to a member of the removed blossom
MemberVertices ==
    {i \in VertexIndices :
        \E k \in DOMAIN dual_module_rtl.nodes[dual_last.args[1] + 1].nodes_circle :
           dual_last.before[1][i].node_index =
              dual_module_rtl.nodes[dual_last.args[1] + 1].nodes_circle[k]}

\* C18, as stated: add_dual_node of a blossom followed at once by
\* remove_blossom restores node_index, root_index, speed and grown of every
\* vertex.
C18_AsStated ==
    RoundTrip
       => \A i \in VertexIndices :
             /\ dual_module_rtl.vertices[i].node_index = dual_last.before[1][i].node_index
             /\ dual_module_rtl.vertices[i].root_index = dual_last.before[1][i].root_index
             /\ dual_module_rtl.vertices[i].speed = dual_last.before[1][i].speed
             /\ dual_module_rtl.vertices[i].grown = dual_last.before[1][i].grown

\* C18, amended: add_dual_node of a blossom followed at once by
\* remove_blossom restores node_index, root_index and grown of every vertex;
\* the speed of a vertex of the blossom's members is Grow, and every other
\* vertex keeps its speed.
C18_BlossomRoundTrip ==
    RoundTrip
       => \A i \in VertexIndices :
             /\ dual_module_rtl.vertices[i].node_index = dual_last.before[1][i].node_index
             /\ dual_module_rtl.vertices[i].root_index = dual_last.before[1][i].root_index
             /\ dual_module_rtl.vertices[i].grown = dual_last.before[1][i].grown
             /\ dual_module_rtl.vertices[i].speed =
                   IF i \in MemberVertices THEN "Grow" ELSE dual_last.before[1][i].speed

\* a blossom was registered over a shrinking member that had grown, and removed
C18_Witness ==
    /\ RoundTrip
    /\ \E i \in MemberVertices :
          /\ dual_last.before[1][i].speed = "Shrink"
          /\ dual_last.before[1][i].grown > 0
          /\ dual_module_rtl.vertices[i].speed = "Grow"

(***************************************************************************)
(* Claims on the matching extraction.                                      *)
(***************************************************************************)
\* the members of blossom b: the present inner nodes whose parent is b
Members(self, b) ==
    {m \in NodeIds : /\ present(self, m)
                     /\ get_node(self, m).grow_state = "None"
                     /\ get_node(self, m).parent = b}

\* the node k sibling steps after start, NONE when the chain breaks
RECURSIVE SiblingWalk(_, _, _)
SiblingWalk(self, start, k) ==
    IF k = 0
    THEN start
    ELSE LET prev == SiblingWalk(self, start, k - 1)
         IN  IF prev = NONE \/ ~has_node(self, prev)
             THEN NONE
             ELSE get_node(self, prev).sibling

\* the members of blossom b form a closed odd sibling cycle through its first
\* child, and each member's link names a defect of it and one of its successor
BlossomCycleOK(self, b) ==
    LET first == get_first_blossom_child(self, b)
        k == Cardinality(Members(self, b))
    IN  /\ first # NONE
        /\ k >= 3 /\ k % 2 = 1
        /\ {SiblingWalk(self, first, i) : i \in 0 .. (k - 1)} = Members(self, b)
        /\ SiblingWalk(self, first, k) = first
        /\ \A m \in Members(self, b) :
              /\ get_node(self, m).link.touch \in DefectsOf(self, m)
              /\ get_node(self, m).link.peer_touch \in DefectsOf(self, get_node(self, m).sibling)

\* the number of sibling steps after which the chain of blossom b is back at
\* its first child, 0 when it breaks or never comes back
ChainLength(self, b) ==
    LET first == get_first_blossom_child(self, b)
        back == {k \in 1 .. DOUBLE_N : SiblingWalk(self, first, k) = first}
    IN  IF back = {} THEN 0 ELSE CHOOSE k \in back : \A j \in back : k <= j

\* C31: iterate_blossom_children(b, f) on a blossom whose members form a
\* closed sibling cycle calls f exactly once per member, first on
\* first_blossom_child and then in sibling order, with each member's own
\* link, and returns when the chain is back at the first child.
C31_BlossomChildren ==
    [][\A b \in BlossomIds :
          (/\ IterateBlossomChildren(b)
           /\ iterate_blossom_children_asserts(primal_nodes, b)
           /\ ChainLength(primal_nodes, b) > 0)
             => /\ ~primal_fatal'
                /\ last'.result = NONE
                /\ Len(last'.emitted) = ChainLength(primal_nodes, b)
                /\ \A i \in 1 .. Len(last'.emitted) :
                      \A child \in {SiblingWalk(primal_nodes,
                                                get_first_blossom_child(primal_nodes, b), i - 1)} :
                         last'.emitted[i] =
                            ChildCallback(child, get_node(primal_nodes, child).link)
                /\ \A i, j \in 1 .. Len(last'.emitted) :
                      i # j => last'.emitted[i].node # last'.emitted[j].node]_vars

\* the members of a blossom that has a blossom among its members were read
C31_Witness ==
    /\ last.op = "iterate_blossom_children"
    /\ ~primal_fatal
    /\ Len(last.emitted) >= 3
    /\ \E i \in 1 .. Len(last.emitted) : is_blossom(last.emitted[i].node)

\* C32: iterate_blossom_children fails on a blossom whose sibling chain has
\* even length or fewer than 3 members, or does not return to
\* first_blossom_child; it neither returns normally nor runs forever.
C32_ChildrenChecked ==
    [][\A b \in BlossomIds :
          (/\ IterateBlossomChildren(b)
           /\ iterate_blossom_children_asserts(primal_nodes, b)
           /\ \/ ChainLength(primal_nodes, b) < 3
              \/ ChainLength(primal_nodes, b) % 2 = 0)
             => primal_fatal']_vars

\* C33: on a present node, get_outer_blossom(id) returns an outer node, id
\* itself when id is outer and otherwise the first outer node on the parent
\* chain of id; on an inner id, get_second_outer_blossom(id) returns an
\* inner node on that chain whose parent is get_outer_blossom(id); both
\* return.
C33_OuterBlossom ==
    /\ last.op = "get_outer_blossom"
          => /\ ~primal_fatal
             /\ has_node(primal_nodes, last.result)
             /\ is_outer_blossom(get_node(primal_nodes, last.result))
             /\ InNode(primal_nodes, last.args[1], last.result)
             /\ is_outer_blossom(get_node(primal_nodes, last.args[1]))
                   => last.result = last.args[1]
    /\ (/\ last.op = "get_second_outer_blossom"
        /\ ~is_outer_blossom(get_node(primal_nodes, last.args[1])))
          => /\ ~primal_fatal
             /\ has_node(primal_nodes, last.result)
             /\ ~is_outer_blossom(get_node(primal_nodes, last.result))
             /\ InNode(primal_nodes, last.args[1], last.result)
             /\ get_node(primal_nodes, last.result).parent
                   = get_outer_blossom(primal_nodes, last.args[1])
             /\ is_outer_blossom(get_node(primal_nodes,
                                          get_node(primal_nodes, last.result).parent))

\* the second outer blossom of a defect two levels deep was read
C33_Witness ==
    /\ last.op = "get_second_outer_blossom"
    /\ ~primal_fatal
    /\ last.result # last.args[1]
    /\ ~is_blossom(last.args[1])

\* C35: temporary_match and temporary_match_virtual_vertex called with an
\* inner node as a node to match fail fatally: no node is changed and no
\* set_grow_state call reaches the dual module.
C35_InnerMatchFatal ==
    [][(\/ /\ last'.op = "temporary_match"
           /\ \/ last'.args[1] \in InnerNodes(primal_nodes)
              \/ last'.args[2] \in InnerNodes(primal_nodes)
        \/ /\ last'.op = "temporary_match_virtual_vertex"
           /\ last'.args[1] \in InnerNodes(primal_nodes))
          => /\ primal_fatal'
             /\ primal_nodes' = primal_nodes
             /\ last'.dual = <<>>]_vars

\* an outer node was to be matched to a node inside a blossom
C35_Witness ==
    /\ last.op = "temporary_match"
    /\ primal_fatal
    /\ last.args[1] \notin InnerNodes(primal_nodes)
    /\ last.args[2] \in InnerNodes(primal_nodes)

\* C36: dispose_blossom on a defect ID, or on a blossom slot that is absent
\* (a second dispose of the same ID), is fatal and leaves the buffer,
\* first_blossom_child and both counters as they were.
C36_DisposeBreach ==
    [][\A b \in {0} \cup BlossomIds :
          (DisposeBlossom(b) /\ (b < N \/ ~has_node(primal_nodes, b)))
             => /\ primal_fatal'
                /\ primal_nodes' = primal_nodes]_vars

\* a blossom of the episode was disposed a second time
C36_Witness ==
    /\ last.op = "dispose_blossom"
    /\ primal_fatal
    /\ last.args[1] \in episode_ids
    /\ ~has_node(primal_nodes, last.args[1])

\* every matched outer node with a sibling is the sibling of that sibling,
\* which is a matched outer node whose link is the mirror of its own
PeerSymmetric(self) ==
    \A a \in OuterNodes(self) :
        (is_matched(get_node(self, a)) /\ get_node(self, a).sibling # NONE)
           => \A b \in {get_node(self, a).sibling} :
                 /\ b \in OuterNodes(self)
                 /\ is_matched(get_node(self, b))
                 /\ get_node(self, b).sibling = a
                 /\ get_node(self, b).link =
                       MatchedLink(get_node(self, a).link.peer_touch,
                                   get_node(self, a).link.peer_through,
                                   get_node(self, a).link.touch,
                                   get_node(self, a).link.through)

\* C38, as stated: after any sequence of temporary_match and
\* temporary_match_virtual_vertex calls on outer nodes the peer relation is
\* symmetric.
C38_AsStated == PeerSymmetric(primal_nodes)

\* C38, amended: a temporary_match or temporary_match_virtual_vertex call
\* on free outer nodes keeps the peer relation symmetric, so it is
\* symmetric after any sequence of such calls.
C38_PeerSymmetric ==
    [][(/\ PeerSymmetric(primal_nodes)
        /\ ~primal_fatal'
        /\ \/ /\ last'.op = "temporary_match"
              /\ {last'.args[1], last'.args[2]} \subseteq FreeNodes(primal_nodes)
           \/ /\ last'.op = "temporary_match_virtual_vertex"
              /\ last'.args[1] \in FreeNodes(primal_nodes))
          => PeerSymmetric(primal_nodes')]_vars

\* a second pair of free nodes has been matched
C38_Witness ==
    /\ last.op = "temporary_match"
    /\ ~primal_fatal
    /\ PeerSymmetric(primal_nodes)
    /\ Cardinality({a \in OuterNodes(primal_nodes) :
                       is_matched(get_node(primal_nodes, a))
                          /\ get_node(primal_nodes, a).sibling # NONE}) >= 4

\* the present outer nodes that are not matched
Unmatched(self) ==
    {n \in NodeIds : /\ present(self, n)
                     /\ is_outer_blossom(get_node(self, n))
                     /\ ~is_matched(get_node(self, n))}

\* C34: iterate_intermediate_matching and iterate_perfect_matching fail
\* fatally when a present outer node is not matched: the node is neither
\* skipped nor reported.
C34_UnmatchedFatal ==
    [][((IterateIntermediateMatching \/ IteratePerfectMatching)
           /\ Unmatched(primal_nodes) # {})
          => /\ primal_fatal'
             /\ \A i \in 1 .. Len(last'.emitted) :
                   last'.emitted[i].node \notin Unmatched(primal_nodes)]_vars

\* the perfect matching was asked for while a blossom was free
C34_Witness ==
    /\ last.op = "iterate_perfect_matching"
    /\ primal_fatal
    /\ \E b \in Unmatched(primal_nodes) : is_blossom(b)

\* every present outer node is matched, to a virtual vertex or to an outer
\* peer that is matched back to it
MutuallyMatched(self) ==
    \A n \in OuterNodes(self) :
        LET node == get_node(self, n)
        IN  /\ is_matched(node)
            /\ IF node.sibling = NONE
               THEN node.link.peer_through # NONE
               ELSE /\ node.sibling # n
                    /\ node.sibling \in OuterNodes(self)
                    /\ get_node(self, node.sibling).sibling = n

WellFormed(self) ==
    /\ MutuallyMatched(self)
    /\ \A n \in OuterNodes(self) :
          LET node == get_node(self, n)
          IN  /\ node.link.touch \in DefectsOf(self, n)
              /\ node.sibling # NONE => node.link.peer_touch \in DefectsOf(self, node.sibling)
    /\ \A b \in BlossomIds : present(self, b) => BlossomCycleOK(self, b)
    /\ \A m \in NodeIds :
          (present(self, m) /\ get_node(self, m).grow_state = "None")
             => (get_node(self, m).parent \in BlossomIds
                   /\ present(self, get_node(self, m).parent))

\* how often defect d is an endpoint of the emitted pairs
Occurrences(d, emitted) ==
    Cardinality({i \in DOMAIN emitted : emitted[i].node = d})
      + Cardinality({i \in DOMAIN emitted :
                        emitted[i].kind = "Peer" /\ emitted[i].target = d})

\* C1: on a well-formed arena iterate_perfect_matching emits pairs whose
\* endpoints are defect IDs, never blossom IDs, and every present defect, at
\* whatever depth inside an outer node, is an endpoint of exactly one emitted
\* pair or virtual match.
C1_PerfectMatching ==
    (last.op = "iterate_perfect_matching" /\ ~primal_fatal /\ WellFormed(primal_nodes))
      => /\ \A i \in DOMAIN last.emitted :
               /\ last.emitted[i].node \in DefectIds
               /\ last.emitted[i].kind = "Peer" => last.emitted[i].target \in DefectIds
         /\ \A d \in DefectIds :
               present(primal_nodes, d) => Occurrences(d, last.emitted) = 1

\* C1 witness: the perfect matching has been read from a well-formed arena
\* whose outer blossom holds a blossom (nesting depth 2).
C1_Witness ==
    /\ last.op = "iterate_perfect_matching"
    /\ ~primal_fatal
    /\ WellFormed(primal_nodes)
    /\ \E b \in BlossomIds :
          /\ present(primal_nodes, b)
          /\ get_node(primal_nodes, b).grow_state = "None"
    /\ Len(last.emitted) >= 3

\* C19: iterate_perfect_matching invokes the sink exactly once per matched
\* pair and in ascending defect order: the first defect ID of each call is
\* larger than that of the previous call, also when blossoms are expanded
\* into inner pairs.
C19_AscendingDefectOrder ==
    (last.op = "iterate_perfect_matching" /\ ~primal_fatal /\ WellFormed(primal_nodes))
      => /\ \A d \in DefectIds :
               present(primal_nodes, d) => Occurrences(d, last.emitted) = 1
         /\ \A i \in DOMAIN last.emitted :
               i > 1 => last.emitted[i].node > last.emitted[i - 1].node

\* C2: when every present outer node is matched and peer matches are mutual,
\* iterate_intermediate_matching calls back in strictly ascending node ID,
\* once per peer-matched pair (at the smaller ID, with Peer(larger ID)), once
\* per virtually matched node (with VirtualVertex(link.peer_through)), and
\* never for an inner node or an absent slot.
C2_IntermediateMatching ==
    (last.op = "iterate_intermediate_matching" /\ ~primal_fatal
        /\ MutuallyMatched(primal_nodes))
      => /\ \A i, j \in DOMAIN last.emitted :
               i < j => last.emitted[i].node < last.emitted[j].node
         /\ \A i \in DOMAIN last.emitted :
               LET cb == last.emitted[i]
               IN  /\ cb.node \in OuterNodes(primal_nodes)
                   /\ cb.link = get_node(primal_nodes, cb.node).link
                   /\ IF get_node(primal_nodes, cb.node).sibling # NONE
                      THEN /\ cb.kind = "Peer"
                           /\ cb.target = get_node(primal_nodes, cb.node).sibling
                           /\ cb.target > cb.node
                      ELSE /\ cb.kind = "VirtualVertex"
                           /\ cb.target = get_node(primal_nodes, cb.node).link.peer_through
         /\ \A n \in OuterNodes(primal_nodes) :
               LET node == get_node(primal_nodes, n)
                   reported == IF node.sibling # NONE /\ node.sibling < n
                               THEN node.sibling ELSE n
               IN  Cardinality({i \in DOMAIN last.emitted :
                                   last.emitted[i].node = reported}) = 1

\* C2 witness: the intermediate matching has been read from an arena holding
\* a peer-matched pair, a virtually matched blossom and its inner members.
C2_Witness ==
    /\ last.op = "iterate_intermediate_matching"
    /\ ~primal_fatal
    /\ MutuallyMatched(primal_nodes)
    /\ \E i \in DOMAIN last.emitted : last.emitted[i].kind = "Peer"
    /\ \E i \in DOMAIN last.emitted :
          last.emitted[i].kind = "VirtualVertex" /\ is_blossom(last.emitted[i].node)
    /\ \E m \in DefectIds :
          present(primal_nodes, m) /\ get_node(primal_nodes, m).grow_state = "None"

(***************************************************************************)
(* Claims on the dual module.                                              *)
(***************************************************************************)
DualNonNegative(dm) ==
    /\ \A i \in VertexIndices : dm.vertices[i].grown >= 0
    /\ \A i \in EdgeIndices :
          /\ dm.edges[i].left_growth >= 0
          /\ dm.edges[i].right_growth >= 0
          /\ dm.edges[i].left_growth + dm.edges[i].right_growth <= dm.edges[i].weight

\* C3: every call leaves every vertex with grown >= 0 and every edge with
\* left_growth >= 0, right_growth >= 0 and left_growth + right_growth <= weight;
\* a grow(length) whose execute stage would break this halts fatally and
\* leaves the registers as they were.
C3_DualNonNegativity ==
    [][/\ DualNonNegative(dual_module_rtl')
       /\ \A length \in 1 .. MaxLength :
             (/\ DualGrow(length)
              /\ ~DualNonNegative(pipeline_staged(dual_module_rtl, Grow(length), "execute_stage",
                                                  iter(VertexIndices), iter(EdgeIndices))))
                => (dual_fatal' /\ dual_module_rtl' = dual_module_rtl)]_vars

\* C3 witness: a grow by a positive length has halted on registers that had
\* already grown along an edge.
C3_Witness ==
    /\ dual_fatal
    /\ dual_last.op = "grow"
    /\ dual_last.args[1] > 0
    /\ \E i \in EdgeIndices :
          dual_module_rtl.edges[i].left_growth + dual_module_rtl.edges[i].right_growth > 0
    /\ DualNonNegative(dual_module_rtl)

\* an edge between two growing vertices of different dual nodes is tight
ConflictEdges(dm) ==
    {i \in EdgeIndices :
        LET left_vertex == dm.vertices[dm.edges[i].left_index]
            right_vertex == dm.vertices[dm.edges[i].right_index]
        IN  /\ left_vertex.node_index # NONE
            /\ right_vertex.node_index # NONE
            /\ left_vertex.node_index # right_vertex.node_index
            /\ left_vertex.speed = "Grow"
            /\ right_vertex.speed = "Grow"
            /\ is_tight(dm.edges[i])}

\* C4: compute_maximum_update_length returns with a response, one of
\* NonZeroGrow, Conflict, ConflictVirtual and BlossomNeedExpand, and when two
\* growing vertices of different dual nodes share a tight edge the response
\* is a Conflict naming the two nodes of such an edge.
C4_ObstacleReturned ==
    dual_last.op = "compute_maximum_update_length"
      => /\ ~dual_fatal
         /\ dual_last.response # <<>>
         /\ dual_last.response[1].type
               \in {"NonZeroGrow", "Conflict", "ConflictVirtual", "BlossomNeedExpand"}
         /\ ConflictEdges(dual_module_rtl) # {}
               => /\ dual_last.response[1].type = "Conflict"
                  /\ \E i \in ConflictEdges(dual_module_rtl) :
                        dual_last.response[1].nodes
                           = <<dual_module_rtl.vertices[dual_module_rtl.edges[i].left_index].node_index,
                               dual_module_rtl.vertices[dual_module_rtl.edges[i].right_index].node_index>>

VertexOrders == Orders(VertexIndices)
EdgeOrders == Orders(EdgeIndices)

\* the stage of the instruction, swept over dm in any order, gives the
\* vertices and edges of next
StageGives(dm, instruction, stage_name, next) ==
    /\ \A vertex_order \in VertexOrders :
          vertices_next(dm, instruction, stage_name, vertex_order, Len(vertex_order))
             = next.vertices
    /\ \A edge_order \in EdgeOrders :
          edges_next(dm, instruction, stage_name, edge_order, Len(edge_order)) = next.edges

\* C8: the registers a call leaves are those of its instructions, each run as
\* an execute stage over all vertices and edges and then an update stage
\* over all of them, and each stage gives the same registers whatever the
\* order in which it sweeps the vertices and the edges.
C8_SweepOrderIndependent ==
    [][dual_last'.instructions # <<>>
         => \A start \in {[dual_module_rtl EXCEPT !.nodes = dual_module_rtl'.nodes]} :
               /\ execute_instructions(start, dual_last'.instructions) = dual_module_rtl'
               /\ \A k \in DOMAIN dual_last'.instructions :
                     \A before \in {execute_instructions(
                                        start, SubSeq(dual_last'.instructions, 1, k - 1))} :
                        \A executed \in {pipeline_staged(
                                             before, dual_last'.instructions[k], "execute_stage",
                                             iter(VertexIndices), iter(EdgeIndices))} :
                           \A after \in {execute_instruction(before, dual_last'.instructions[k])} :
                              /\ StageGives(before, dual_last'.instructions[k],
                                            "execute_stage", executed)
                              /\ StageGives(executed, dual_last'.instructions[k],
                                            "update_stage", after)]_vars

\* C8 witness: after an instruction a vertex with nothing grown is still
\* unowned although a peer that became growing in the same update stage
\* sits across a tight edge: the vertex saw the peer as the previous stage
\* left it.
C8_Witness ==
    /\ ~dual_fatal
    /\ dual_last.instructions # <<>>
    /\ \E i \in EdgeIndices :
          LET edge == dual_module_rtl.edges[i]
              left_vertex == dual_module_rtl.vertices[edge.left_index]
              right_vertex == dual_module_rtl.vertices[edge.right_index]
          IN  /\ is_tight_from(edge, edge.left_index)
              /\ left_vertex.speed = "Grow"
              /\ ~left_vertex.is_defect
              /\ ~right_vertex.is_defect /\ ~right_vertex.is_virtual
              /\ right_vertex.grown = 0
              /\ right_vertex.node_index = NONE

(***************************************************************************)
(* Claims on Response::reduce.                                             *)
(***************************************************************************)
\* a Conflict, ConflictVirtual or BlossomNeedExpand
Urgent(response) == response # <<>> /\ response[1].type # "NonZeroGrow"

\* C5: reduce returns one of its two arguments; a present argument is never
\* replaced by none; a Conflict, ConflictVirtual or BlossomNeedExpand wins
\* over a NonZeroGrow; of two NonZeroGrow the smaller length wins.
C5_ReduceMoreUrgent ==
    reduced.done
      => /\ reduced.value \in {reduce_resp1, reduce_resp2}
         /\ (reduce_resp1 # <<>> \/ reduce_resp2 # <<>>) => reduced.value # <<>>
         /\ (Urgent(reduce_resp1) \/ Urgent(reduce_resp2)) => Urgent(reduced.value)
         /\ (/\ reduce_resp1 # <<>> /\ ~Urgent(reduce_resp1)
             /\ reduce_resp2 # <<>> /\ ~Urgent(reduce_resp2))
               => /\ reduced.value # <<>>
                  /\ reduced.value[1].length <= reduce_resp1[1].length
                  /\ reduced.value[1].length <= reduce_resp2[1].length

====
